---- MODULE Spec2Model ----
(***************************************************************************)
(* Kolibri node: the genome ledger (backend/src/genome.c), the digit codec *)
(* (backend/src/decimal.c) and the formula pool (backend/src/formula.c).   *)
(*                                                                         *)
(* The ledger file is modelled byte for byte as a sequence of one-character*)
(* strings; records are formatted and parsed the way fprintf / fgets /     *)
(* sscanf do it in genome.c.  Field capacities are scaled down (one hash   *)
(* byte, one-byte texts) so that the whole file fits a model checker run.  *)
(***************************************************************************)
EXTENDS Integers, Sequences, FiniteSets, TLC

(***************************************************************************)
(* Bounds of the model                                                     *)
(***************************************************************************)
MaxRecords == 2        \* records a ledger file may hold
MaxIndex == 3          \* cap on next_index (a uint64_t in the code)
AuditRecords == 3      \* records of a ledger file handed to an audit
PoolFormulas == 4      \* formulas of a pool (the formulas array)
GeneDigits == 11       \* digits of a gene (the digits array)
PoolExamples == 2      \* capacity of the example buffer
MaxTicks == 2          \* kf_pool_tick calls in a run
MaxFeedbacks == 2      \* kf_pool_feedback calls in a run
MaxTeaches == 4        \* kf_pool_add_association calls in a run that teaches them
TeachTicks == 1        \* kf_pool_tick calls in such a run
TwinTicks == 1        \* kf_pool_tick calls in a run on two pools
TwinFeedbacks == 1     \* kf_pool_feedback calls in a run on two pools
TwinTeaches == 1       \* kf_pool_add_association calls in a run on two pools
MaxEventBytes == 1     \* capacity of the event text, in bytes
MaxPayloadBytes == 1   \* capacity of the payload text, in bytes
HashBytes == 1         \* bytes of an authentication tag
IntBits == 6           \* bits of an int; a long long has twice as many
PoolAssociations == 3  \* capacity of the association table of a pool
FormulaAssociations == 2   \* capacity of the association table of a formula
QuestionSize == 3      \* bytes of the question field of an association
AnswerSize == 3        \* bytes of the answer field of an association

KOLIBRI_HASH_SIZE == HashBytes
KOLIBRI_EVENT_DIGITS == 3 * MaxEventBytes
KOLIBRI_PAYLOAD_DIGITS == 3 * MaxPayloadBytes
KOLIBRI_HMAC_KEY_SIZE == 2
StrokaSize == 1024
KOLIBRI_FORMULA_MAX_ASSOCIATIONS == FormulaAssociations
KOLIBRI_POOL_MAX_ASSOCIATIONS == PoolAssociations

RECURSIVE Pow2(_)
Pow2(n) == IF n = 0 THEN 1 ELSE 2 * Pow2(n - 1)

INT_MAX == Pow2(IntBits - 1) - 1
LLONG_MAX == Pow2(2 * IntBits - 1) - 1

(***************************************************************************)
(* Inputs                                                                  *)
(***************************************************************************)
TextByte == 65
SeqsOfLen(S, lo, hi) == UNION {[1..k -> S] : k \in lo..hi}
\* texts up to one byte over capacity, so that "too long" happens; an event
\* name is never empty, a payload may be
EventTexts == SeqsOfLen({TextByte}, 1, MaxEventBytes + 1)
PayloadTexts == SeqsOfLen({TextByte}, 0, MaxPayloadBytes + 1)
Timestamps == {12}
Keys == {<<11>>, <<23, 2>>}
Faults == {"none", "hmac", "write"}
Seeds == {77}
\* examples of the task 2x + 1, and one whose target is the largest int
Examples == {<<0, 1>>, <<1, 3>>, <<1, INT_MAX>>}
\* questions and answers are byte strings; the last question fills its field,
\* every answer is shorter than its field
Questions == {<<81>>, <<82>>, <<83>>, <<81, 82>>}
Answers == {<<65>>, <<66>>}
\* what the byte of a text field that nobody wrote may hold besides zero
IndeterminateBytes == {71}
Deltas == {-800, 300, 700}
TickGenerations == {0, 1}
\* byte values a foreign writer may put into the file
TamperChars == {"0", "A", "z", ",", "\n"}

(***************************************************************************)
(* Characters, decimal and hexadecimal text                                *)
(***************************************************************************)
DigitChars == <<"0", "1", "2", "3", "4", "5", "6", "7", "8", "9">>
tablica == DigitChars \o <<"a", "b", "c", "d", "e", "f">>
UpperHex == <<"A", "B", "C", "D", "E", "F">>

DigitSet == {DigitChars[i] : i \in 1..10}
HexSet == {tablica[i] : i \in 1..16} \cup {UpperHex[i] : i \in 1..6}
DigitVal == [c \in DigitSet |-> CHOOSE d \in 0..9 : DigitChars[d + 1] = c]
HexVal == [c \in HexSet |-> IF \E i \in 1..16 : tablica[i] = c
                            THEN CHOOSE d \in 0..15 : tablica[d + 1] = c
                            ELSE 9 + (CHOOSE i \in 1..6 : UpperHex[i] = c)]

IsDigitChar(c) == c \in DigitSet
DigitOf(c) == DigitVal[c]
IsHexChar(c) == c \in HexSet
HexOf(c) == HexVal[c]

\* every byte value a ledger file of the model can hold
FileChars == HexSet \cup TamperChars \cup {",", "\n"}

Min(S) == CHOOSE x \in S : \A y \in S : x <= y

RECURSIVE Pow(_, _)
Pow(b, n) == IF n = 0 THEN 1 ELSE b * Pow(b, n - 1)

\* printf("%llu")
RECURSIVE FormatUll(_)
FormatUll(n) == IF n < 10 THEN <<DigitChars[n + 1]>>
                ELSE FormatUll(n \div 10) \o <<DigitChars[(n % 10) + 1]>>

\* value of a run of decimal digit characters
RECURSIVE DecVal(_)
DecVal(s) == IF s = <<>> THEN 0
             ELSE 10 * DecVal(SubSeq(s, 1, Len(s) - 1)) + DigitOf(s[Len(s)])

\* first position >= pos whose character is not in accept, Len(s)+1 if none
RECURSIVE RunEnd(_, _, _)
RunEnd(s, pos, accept) ==
    IF pos > Len(s) \/ s[pos] \notin accept THEN pos ELSE RunEnd(s, pos + 1, accept)

\* sscanf "%llu": a non-empty run of decimal digits
ScanUll(s, pos) ==
    LET e == RunEnd(s, pos, DigitSet)
    IN [ok |-> e > pos, val |-> IF e > pos THEN DecVal(SubSeq(s, pos, e - 1)) ELSE 0, next |-> e]

\* sscanf "%W[^c]": a non-empty run of at most W characters other than c
ScanSet(s, pos, width, stop) ==
    LET e0 == RunEnd(s, pos, FileChars \ {stop})
        e == IF e0 > pos + width THEN pos + width ELSE e0
    IN [ok |-> e > pos, val |-> IF e > pos THEN SubSeq(s, pos, e - 1) ELSE <<>>, next |-> e]

Literal(s, pos, c) == pos <= Len(s) /\ s[pos] = c

\* preobrazovat_v_hex: lowercase, two characters per byte
preobrazovat_v_hex(istochnik) ==
    [i \in 1..(2 * Len(istochnik)) |->
        IF i % 2 = 1 THEN tablica[(istochnik[(i + 1) \div 2] \div 16) + 1]
        ELSE tablica[(istochnik[i \div 2] % 16) + 1]]

\* sscanf(stroka + 2*indeks, "%02x"): one or two hexadecimal digits of either
\* case; the scan stops at the first character that is not one
ScanHex2(stroka, pos) ==
    IF pos > Len(stroka) \/ ~IsHexChar(stroka[pos]) THEN [ok |-> FALSE, val |-> 0]
    ELSE IF pos + 1 <= Len(stroka) /\ IsHexChar(stroka[pos + 1])
         THEN [ok |-> TRUE, val |-> 16 * HexOf(stroka[pos]) + HexOf(stroka[pos + 1])]
         ELSE [ok |-> TRUE, val |-> HexOf(stroka[pos])]

preobrazovat_hex_v_bajty(stroka, razmer_naznacheniya) ==
    LET dlina == Len(stroka)
        pary == [indeks \in 1..razmer_naznacheniya |-> ScanHex2(stroka, 2 * indeks - 1)]
    IN IF dlina % 2 # 0 \/ dlina \div 2 # razmer_naznacheniya
       THEN [ok |-> FALSE, bytes |-> <<>>]
       ELSE IF \E indeks \in 1..razmer_naznacheniya : ~pary[indeks].ok
            THEN [ok |-> FALSE, bytes |-> <<>>]
            ELSE [ok |-> TRUE, bytes |-> [indeks \in 1..razmer_naznacheniya |-> pary[indeks].val]]

(***************************************************************************)
(* Digit codec                                                             *)
(***************************************************************************)
\* zakodirovat_bajt: hundreds, tens, ones
zakodirovat_bajt(znachenie) ==
    <<znachenie \div 100, (znachenie \div 10) % 10, znachenie % 10>>

RECURSIVE kolibri_transducirovat_utf8(_)
kolibri_transducirovat_utf8(bajty) ==
    IF bajty = <<>> THEN <<>>
    ELSE zakodirovat_bajt(Head(bajty)) \o kolibri_transducirovat_utf8(Tail(bajty))

\* kolibri_izluchit_utf8: three digits make one byte, truncated to 8 bits
kolibri_izluchit_utf8(cifry) ==
    IF Len(cifry) % 3 # 0 THEN [ok |-> FALSE, bytes |-> <<>>]
    ELSE [ok |-> TRUE,
          bytes |-> [i \in 1..(Len(cifry) \div 3) |->
                       (cifry[3 * i - 2] * 100 + cifry[3 * i - 1] * 10 + cifry[3 * i]) % 256]]

\* a count that stops at two digits
kolibri_podschitat_cifry_short(velichina) == IF velichina < 10 THEN 1 ELSE 2

\* kolibri_podschitat_cifry: the number of decimal digits of a magnitude
RECURSIVE kolibri_podschitat_cifry(_)
kolibri_podschitat_cifry(velichina) ==
    IF velichina < 10 THEN 1 ELSE 1 + kolibri_podschitat_cifry(velichina \div 10)

\* A kolibri_potok_cifr is its capacity, the digits written and the reading
\* position.  int64_t is LLONG_MAX wide here and uint64_t one bit wider; the
\* longest number read, 19 digits in the code, has the digits of LLONG_MAX.
\* kolibri_potok_cifr_zapisat_chislo: result code and the stream after the call
kolibri_potok_cifr_zapisat_chislo(potok, znachenie) ==
    LET modul == IF znachenie >= 0 THEN znachenie ELSE (-(znachenie + 1)) + 1
        chislo_cifr == kolibri_podschitat_cifry(modul)
        znak == IF znachenie < 0 THEN 1 ELSE 0
        lokalnye == [indeks \in 1..chislo_cifr |->
                       (modul \div Pow(10, chislo_cifr - indeks)) % 10]
    IN IF chislo_cifr > 99 THEN [ret |-> -1, potok |-> potok]
       ELSE IF Len(potok.cifry) + chislo_cifr + 3 > potok.emkost
            THEN [ret |-> -1, potok |-> potok]
       ELSE [ret |-> 0,
             potok |-> [potok EXCEPT !.cifry = @ \o <<(chislo_cifr \div 10) % 10,
                                                      chislo_cifr % 10, znak>> \o lokalnye]]

\* a reader that moves past the three header digits before it validates them
\* and the number read
kolibri_potok_cifr_schitat_chislo_header_consumed(potok) ==
    LET nachalo == potok.poziciya
        dostupno == Len(potok.cifry) - nachalo
        failed == [ret |-> -1, znachenie |-> 0,
                   potok |-> [potok EXCEPT !.poziciya = nachalo + 3]]
        chislo_cifr == potok.cifry[nachalo + 1] * 10 + potok.cifry[nachalo + 2]
        znak == potok.cifry[nachalo + 3]
        RECURSIVE modul_from(_, _)
        modul_from(indeks, modul) ==
            IF indeks > chislo_cifr THEN modul
            ELSE LET cifra == potok.cifry[nachalo + 3 + indeks]
                 IN IF cifra > 9 THEN -1
                    ELSE IF modul > ((2 * LLONG_MAX + 1) - cifra) \div 10 THEN -1
                    ELSE modul_from(indeks + 1, modul * 10 + cifra)
        modul == modul_from(1, 0)
        done(znachenie) == [ret |-> 0, znachenie |-> znachenie,
                            potok |-> [potok EXCEPT !.poziciya = nachalo + 3 + chislo_cifr]]
    IN IF nachalo >= Len(potok.cifry) THEN [ret |-> 1, potok |-> potok, znachenie |-> 0]
       ELSE IF dostupno < 3 THEN [ret |-> -1, potok |-> potok, znachenie |-> 0]
       ELSE IF potok.cifry[nachalo + 1] > 9 \/ potok.cifry[nachalo + 2] > 9 \/ znak > 1
            THEN failed
       ELSE IF chislo_cifr = 0 \/ chislo_cifr > kolibri_podschitat_cifry(LLONG_MAX) THEN failed
       ELSE IF dostupno < chislo_cifr + 3 THEN failed
       ELSE IF modul = -1 THEN failed
       ELSE IF znak = 0
            THEN IF modul > LLONG_MAX THEN failed ELSE done(modul)
       ELSE IF modul > LLONG_MAX + 1 THEN failed
       ELSE IF modul = LLONG_MAX + 1 THEN done(-LLONG_MAX - 1)
       ELSE done(-modul)

\* kolibri_potok_cifr_schitat_chislo: result code, the stream after the call
\* and the number read
kolibri_potok_cifr_schitat_chislo(potok) ==
    LET nachalo == potok.poziciya
        dostupno == Len(potok.cifry) - nachalo
        failed == [ret |-> -1, potok |-> potok, znachenie |-> 0]
        chislo_cifr == potok.cifry[nachalo + 1] * 10 + potok.cifry[nachalo + 2]
        znak == potok.cifry[nachalo + 3]
        RECURSIVE modul_from(_, _)
        modul_from(indeks, modul) ==
            IF indeks > chislo_cifr THEN modul
            ELSE LET cifra == potok.cifry[nachalo + 3 + indeks]
                 IN IF cifra > 9 THEN -1
                    ELSE IF modul > ((2 * LLONG_MAX + 1) - cifra) \div 10 THEN -1
                    ELSE modul_from(indeks + 1, modul * 10 + cifra)
        modul == modul_from(1, 0)
        done(znachenie) == [ret |-> 0, znachenie |-> znachenie,
                            potok |-> [potok EXCEPT !.poziciya = nachalo + 3 + chislo_cifr]]
    IN IF nachalo >= Len(potok.cifry) THEN [ret |-> 1, potok |-> potok, znachenie |-> 0]
       ELSE IF dostupno < 3 THEN failed
       ELSE IF potok.cifry[nachalo + 1] > 9 \/ potok.cifry[nachalo + 2] > 9 \/ znak > 1
            THEN failed
       ELSE IF chislo_cifr = 0 \/ chislo_cifr > kolibri_podschitat_cifry(LLONG_MAX) THEN failed
       ELSE IF dostupno < chislo_cifr + 3 THEN failed
       ELSE IF modul = -1 THEN failed
       ELSE IF znak = 0
            THEN IF modul > LLONG_MAX THEN failed ELSE done(modul)
       ELSE IF modul > LLONG_MAX + 1 THEN failed
       ELSE IF modul = LLONG_MAX + 1 THEN done(-LLONG_MAX - 1)
       ELSE done(-modul)

\* preobrazovat_stroku_v_cifry: text to digits within a field capacity
preobrazovat_stroku_v_cifry(istochnik, emkost) ==
    IF Len(istochnik) * 3 > emkost THEN [ok |-> FALSE, cifry |-> <<>>]
    ELSE [ok |-> TRUE, cifry |-> kolibri_transducirovat_utf8(istochnik)]

\* preobrazovat_cifry_v_stroku: digits to their ASCII characters
preobrazovat_cifry_v_stroku(istochnik, razmer) ==
    IF Len(istochnik) >= razmer \/ (\E i \in 1..Len(istochnik) : istochnik[i] > 9)
    THEN [ok |-> FALSE, stroka |-> <<>>]
    ELSE [ok |-> TRUE, stroka |-> [i \in 1..Len(istochnik) |-> DigitChars[istochnik[i] + 1]]]

\* preobrazovat_ascii_v_cifry: ASCII digits of a file field back to digits
preobrazovat_ascii_v_cifry(istochnik, emkost) ==
    IF Len(istochnik) > emkost \/ Len(istochnik) % 3 # 0
       \/ (\E i \in 1..Len(istochnik) : ~IsDigitChar(istochnik[i]))
    THEN [ok |-> FALSE, cifry |-> <<>>]
    ELSE [ok |-> TRUE, cifry |-> [i \in 1..Len(istochnik) |-> DigitOf(istochnik[i])]]

(***************************************************************************)
(* Records and their authentication tag                                    *)
(***************************************************************************)
ZeroHash == [i \in 1..KOLIBRI_HASH_SIZE |-> 0]

\* sobrat_paket: index, timestamp, prev_hash, event length and digits,
\* payload length and digits, in this order (each integer one element)
sobrat_paket(blok) ==
    <<blok.index, blok.timestamp>> \o blok.prev_hash
      \o <<Len(blok.event_digits)>> \o blok.event_digits
      \o <<Len(blok.payload_digits)>> \o blok.payload_digits

RECURSIVE WeightedSum(_, _)
WeightedSum(s, i) == IF i > Len(s) THEN 0 ELSE (2 * i + 1) * s[i] + WeightedSum(s, i + 1)

\* HMAC(EVP_sha256(), key, buffer): a keyed tag of KOLIBRI_HASH_SIZE bytes.
\* The stand-in is a keyed positional checksum; every element has an odd
\* weight, so changing one element of the buffer or of the key changes the tag.
HMAC(klyuch, bufer) ==
    LET modul == Pow(256, KOLIBRI_HASH_SIZE)
        v == (WeightedSum(klyuch, 1) + 7 * WeightedSum(bufer, 1)) % modul
    IN [i \in 1..KOLIBRI_HASH_SIZE |-> (v \div Pow(256, KOLIBRI_HASH_SIZE - i)) % 256]


\* the all-zero ReasonBlock of memset(&blok, 0, sizeof(blok))
ZeroBlock == [index |-> 0, timestamp |-> 0, prev_hash |-> ZeroHash, hmac |-> ZeroHash,
              event_digits |-> <<>>, payload_digits |-> <<>>]

\* the conversions of the format "%llu,%llu,%64[^,],%64[^,],%96[^,],%768[^\n]",
\* the field widths scaled with the fields
FormatZapisi ==
    <<[llu |-> TRUE, width |-> 0, stop |-> ","],
      [llu |-> TRUE, width |-> 0, stop |-> ","],
      [llu |-> FALSE, width |-> 2 * KOLIBRI_HASH_SIZE, stop |-> ","],
      [llu |-> FALSE, width |-> 2 * KOLIBRI_HASH_SIZE, stop |-> ","],
      [llu |-> FALSE, width |-> KOLIBRI_EVENT_DIGITS, stop |-> ","],
      [llu |-> FALSE, width |-> KOLIBRI_PAYLOAD_DIGITS, stop |-> "\n"]>>

ScanField(s, pos, conv) ==
    IF conv.llu THEN ScanUll(s, pos) ELSE ScanSet(s, pos, conv.width, conv.stop)

\* sscanf: the values converted, from left to right, up to the first
\* conversion or separating comma that does not match
RECURSIVE sscanf(_, _, _)
sscanf_next(s, f, format) ==
    IF ~f.ok THEN <<>>
    ELSE IF Len(format) = 1 \/ ~Literal(s, f.next, ",") THEN <<f.val>>
    ELSE <<f.val>> \o sscanf(s, f.next + 1, Tail(format))

sscanf(s, pos, format) == sscanf_next(s, ScanField(s, pos, Head(format)), format)

\* the number of conversions made and the converted fields
PolyaZapisi(polya) ==
    IF Len(polya) = 6
    THEN [sovpalo |-> 6, indeks |-> polya[1], metka_vremeni |-> polya[2], pred_hex |-> polya[3],
          hmac_hex |-> polya[4], sobytie |-> polya[5], nagruzka |-> polya[6]]
    ELSE [sovpalo |-> Len(polya), indeks |-> 0, metka_vremeni |-> 0, pred_hex |-> <<>>,
          hmac_hex |-> <<>>, sobytie |-> <<>>, nagruzka |-> <<>>]

ScanRecord(stroka) == PolyaZapisi(sscanf(stroka, 1, FormatZapisi))

\* razobrat_stroku after its sscanf: the fields r are decoded and checked
\* against the expected index, the expected previous tag and the key
proverit_polya(r, ozhidaemyj_prev, ozhidaemyj_indeks, klyuch) ==
    LET ev == preobrazovat_ascii_v_cifry(r.sobytie, KOLIBRI_EVENT_DIGITS)
        pl == preobrazovat_ascii_v_cifry(r.nagruzka, KOLIBRI_PAYLOAD_DIGITS)
        pred == preobrazovat_hex_v_bajty(r.pred_hex, KOLIBRI_HASH_SIZE)
        mac == preobrazovat_hex_v_bajty(r.hmac_hex, KOLIBRI_HASH_SIZE)
        blok == [index |-> r.indeks, timestamp |-> r.metka_vremeni,
                 prev_hash |-> pred.bytes, hmac |-> mac.bytes,
                 event_digits |-> ev.cifry, payload_digits |-> pl.cifry]
    IN IF klyuch = <<>> \/ r.sovpalo # 6 THEN [ok |-> FALSE, blok |-> ZeroBlock]
       ELSE IF ~ev.ok \/ ~pl.ok THEN [ok |-> FALSE, blok |-> ZeroBlock]
       ELSE IF r.indeks # ozhidaemyj_indeks THEN [ok |-> FALSE, blok |-> ZeroBlock]
       ELSE IF ~pred.ok \/ ~mac.ok THEN [ok |-> FALSE, blok |-> ZeroBlock]
       ELSE IF pred.bytes # ozhidaemyj_prev THEN [ok |-> FALSE, blok |-> ZeroBlock]
       ELSE IF HMAC(klyuch, sobrat_paket(blok)) # mac.bytes THEN [ok |-> FALSE, blok |-> ZeroBlock]
       ELSE [ok |-> TRUE, blok |-> blok]

\* razobrat_stroku: parse one line and check it
razobrat_stroku(stroka, ozhidaemyj_prev, ozhidaemyj_indeks, klyuch) ==
    proverit_polya(ScanRecord(stroka), ozhidaemyj_prev, ozhidaemyj_indeks, klyuch)

\* the lines successive fgets(stroka, sizeof(stroka), file) calls return: up
\* to and including a newline, at most sizeof(stroka) - 1 characters each
RECURSIVE fgets(_)
fgets(data) ==
    IF data = <<>> THEN <<>>
    ELSE LET nl == RunEnd(data, 1, FileChars \ {"\n"})
             e0 == IF nl <= Len(data) THEN nl ELSE Len(data)
             e == IF e0 > StrokaSize - 1 THEN StrokaSize - 1 ELSE e0
         IN <<SubSeq(data, 1, e)>> \o fgets(SubSeq(data, e + 1, Len(data)))

\* fopen(path, mode) on the one ledger path: "rb" needs the file, "a+b"
\* creates it; neither changes the bytes of an existing file
fopen(exists, mode) ==
    IF mode = "rb" THEN [ok |-> exists, exists |-> exists]
    ELSE [ok |-> TRUE, exists |-> TRUE]

(***************************************************************************)
(* KolibriGenome context and the ledger operations                         *)
(***************************************************************************)
\* sbrosit_kontekst
sbrosit_kontekst(kontekst) ==
    [file |-> FALSE, last_hash |-> ZeroHash, hmac_key |-> <<>>, hmac_key_len |-> 0,
     path |-> FALSE, next_index |-> 0]

\* a reading loop that validates every record but forgets the tip it read
RECURSIVE kg_open_loop_forgets_tip(_, _, _, _, _)
kg_open_loop_forgets_tip(lines, i, ozhidaemyj_prev, ozhidaemyj_indeks, klyuch) ==
    IF i > Len(lines) THEN [ok |-> TRUE, prev |-> ZeroHash, indeks |-> 0]
    ELSE LET p == razobrat_stroku(lines[i], ozhidaemyj_prev, ozhidaemyj_indeks, klyuch)
         IN IF ~p.ok THEN [ok |-> FALSE, prev |-> ozhidaemyj_prev, indeks |-> ozhidaemyj_indeks]
            ELSE kg_open_loop_forgets_tip(lines, i + 1, p.blok.hmac, p.blok.index + 1, klyuch)

\* the reading loop of kg_open
RECURSIVE kg_open_loop(_, _, _, _, _)
kg_open_loop(lines, i, ozhidaemyj_prev, ozhidaemyj_indeks, klyuch) ==
    IF i > Len(lines) THEN [ok |-> TRUE, prev |-> ozhidaemyj_prev, indeks |-> ozhidaemyj_indeks]
    ELSE LET p == razobrat_stroku(lines[i], ozhidaemyj_prev, ozhidaemyj_indeks, klyuch)
         IN IF ~p.ok THEN [ok |-> FALSE, prev |-> ozhidaemyj_prev, indeks |-> ozhidaemyj_indeks]
            ELSE kg_open_loop(lines, i + 1, p.blok.hmac, p.blok.index + 1, klyuch)

\* a kg_open that reports a bad record but hands back an open context
kg_open_stays_open(kontekst, exists, data, klyuch) ==
    LET scan == kg_open_loop(fgets(IF exists THEN data ELSE <<>>), 1, ZeroHash, 0, klyuch)
    IN [ret |-> IF scan.ok THEN 0 ELSE -1,
        kontekst |-> [file |-> TRUE, last_hash |-> scan.prev, hmac_key |-> klyuch,
                      hmac_key_len |-> Len(klyuch), path |-> TRUE, next_index |-> scan.indeks],
        exists |-> TRUE, data |-> IF exists THEN data ELSE <<>>]

\* kg_open: result code, context and file after the call
kg_open(kontekst, exists, data, klyuch) ==
    IF Len(klyuch) = 0 \/ Len(klyuch) > KOLIBRI_HMAC_KEY_SIZE
    THEN [ret |-> -1, kontekst |-> kontekst, exists |-> exists, data |-> data]
    ELSE LET fail == fopen(exists, "a+b")
             soderzhimoe == IF exists THEN data ELSE <<>>
             scan == kg_open_loop(fgets(soderzhimoe), 1, ZeroHash, 0, klyuch)
         IN IF ~fail.ok
            THEN [ret |-> -1, kontekst |-> sbrosit_kontekst(kontekst),
                  exists |-> fail.exists, data |-> soderzhimoe]
            ELSE IF ~scan.ok
            THEN [ret |-> -1, kontekst |-> sbrosit_kontekst(kontekst),
                  exists |-> fail.exists, data |-> soderzhimoe]
            ELSE [ret |-> 0,
                  kontekst |-> [file |-> TRUE, last_hash |-> scan.prev, hmac_key |-> klyuch,
                                hmac_key_len |-> Len(klyuch), path |-> TRUE,
                                next_index |-> scan.indeks],
                  exists |-> fail.exists, data |-> soderzhimoe]

\* a kg_close that closes the file and keeps the rest of the context
kg_close_keeps_context(kontekst) == [kontekst EXCEPT !.file = FALSE]

\* kg_close
kg_close(kontekst) ==
    [file |-> FALSE, last_hash |-> ZeroHash, hmac_key |-> <<>>, hmac_key_len |-> 0,
     path |-> FALSE, next_index |-> 0]

\* kg_append: result code, context after the call, the bytes written to the
\* file and the block handed back.  fault is what the environment does to
\* this call: "hmac" makes HMAC() fail, "write" makes fprintf() fail.
kg_append(kontekst, tip_sobytiya, nagruzka, vremya, fault) ==
    IF ~kontekst.file
    THEN [ret |-> -1, kontekst |-> kontekst, zapis |-> <<>>, blok |-> ZeroBlock]
    ELSE LET k1 == [kontekst EXCEPT !.next_index = kontekst.next_index + 1]
             ev == preobrazovat_stroku_v_cifry(tip_sobytiya, KOLIBRI_EVENT_DIGITS)
             pl == preobrazovat_stroku_v_cifry(nagruzka, KOLIBRI_PAYLOAD_DIGITS)
             b0 == [index |-> kontekst.next_index, timestamp |-> vremya,
                    prev_hash |-> kontekst.last_hash, hmac |-> ZeroHash,
                    event_digits |-> ev.cifry, payload_digits |-> pl.cifry]
             blok == [b0 EXCEPT !.hmac = HMAC(kontekst.hmac_key, sobrat_paket(b0))]
             k2 == [k1 EXCEPT !.last_hash = blok.hmac]
             sobytie_ascii == preobrazovat_cifry_v_stroku(blok.event_digits, KOLIBRI_EVENT_DIGITS + 1)
             nagruzka_ascii == preobrazovat_cifry_v_stroku(blok.payload_digits, KOLIBRI_PAYLOAD_DIGITS + 1)
             stroka == FormatUll(blok.index) \o <<",">> \o FormatUll(blok.timestamp) \o <<",">>
                       \o preobrazovat_v_hex(blok.prev_hash) \o <<",">>
                       \o preobrazovat_v_hex(blok.hmac) \o <<",">>
                       \o sobytie_ascii.stroka \o <<",">> \o nagruzka_ascii.stroka \o <<"\n">>
         IN IF ~ev.ok \/ ~pl.ok
            THEN [ret |-> -1, kontekst |-> k1, zapis |-> <<>>, blok |-> ZeroBlock]
            ELSE IF fault = "hmac"
            THEN [ret |-> -1, kontekst |-> k1, zapis |-> <<>>, blok |-> ZeroBlock]
            ELSE IF ~sobytie_ascii.ok \/ ~nagruzka_ascii.ok
            THEN [ret |-> -1, kontekst |-> k2, zapis |-> <<>>, blok |-> ZeroBlock]
            ELSE IF fault = "write"
            THEN [ret |-> -1, kontekst |-> k2, zapis |-> <<>>, blok |-> ZeroBlock]
            ELSE [ret |-> 0, kontekst |-> k2, zapis |-> stroka, blok |-> blok]

\* the reading loop of kg_verify_file
\* a verification loop that validates the first record only
kg_verify_loop_first_record(lines, i, ozhidaemyj_prev, ozhidaemyj_indeks, klyuch) ==
    IF i > Len(lines) \/ i > 1 THEN 0
    ELSE IF razobrat_stroku(lines[i], ozhidaemyj_prev, ozhidaemyj_indeks, klyuch).ok
         THEN 0 ELSE -1

RECURSIVE kg_verify_loop(_, _, _, _, _)
kg_verify_loop(lines, i, ozhidaemyj_prev, ozhidaemyj_indeks, klyuch) ==
    IF i > Len(lines) THEN 0
    ELSE LET p == razobrat_stroku(lines[i], ozhidaemyj_prev, ozhidaemyj_indeks, klyuch)
         IN IF ~p.ok THEN -1
            ELSE kg_verify_loop(lines, i + 1, p.blok.hmac, p.blok.index + 1, klyuch)

\* a kg_verify_file that opens the path the way kg_open does
kg_verify_file_creates(exists, data, klyuch) ==
    LET fail == fopen(exists, "a+b")
    IN [ret |-> kg_verify_loop(fgets(IF exists THEN data ELSE <<>>), 1, ZeroHash, 0, klyuch),
        exists |-> fail.exists, data |-> IF exists THEN data ELSE <<>>]

\* kg_verify_file: result code and the file after the call
kg_verify_file(exists, data, klyuch) ==
    IF Len(klyuch) = 0 \/ Len(klyuch) > KOLIBRI_HMAC_KEY_SIZE
    THEN [ret |-> -1, exists |-> exists, data |-> data]
    ELSE LET fail == fopen(exists, "rb")
         IN IF ~fail.ok THEN [ret |-> 1, exists |-> fail.exists, data |-> data]
            ELSE [ret |-> kg_verify_loop(fgets(data), 1, ZeroHash, 0, klyuch),
                  exists |-> fail.exists, data |-> data]

\* a reading loop that hands a record to the visitor before validating it
RECURSIVE kg_replay_loop_visits_first(_, _, _, _, _, _, _)
kg_replay_loop_visits_first(lines, i, ozhidaemyj_prev, ozhidaemyj_indeks, klyuch, posetitel, seen) ==
    IF i > Len(lines) THEN [ret |-> 0, visited |-> seen]
    ELSE LET p == razobrat_stroku(lines[i], ozhidaemyj_prev, ozhidaemyj_indeks, klyuch)
         IN IF ~p.ok \/ p.blok.index \in posetitel
            THEN [ret |-> -1, visited |-> Append(seen, p.blok)]
            ELSE kg_replay_loop_visits_first(lines, i + 1, p.blok.hmac, p.blok.index + 1,
                                             klyuch, posetitel, Append(seen, p.blok))

\* the reading loop of kg_replay; posetitel is the set of record indices for
\* which the caller's visitor returns non-zero
RECURSIVE kg_replay_loop(_, _, _, _, _, _, _)
kg_replay_loop(lines, i, ozhidaemyj_prev, ozhidaemyj_indeks, klyuch, posetitel, seen) ==
    IF i > Len(lines) THEN [ret |-> 0, visited |-> seen]
    ELSE LET p == razobrat_stroku(lines[i], ozhidaemyj_prev, ozhidaemyj_indeks, klyuch)
         IN IF ~p.ok THEN [ret |-> -1, visited |-> seen]
            ELSE IF p.blok.index \in posetitel
            THEN [ret |-> -1, visited |-> Append(seen, p.blok)]
            ELSE kg_replay_loop(lines, i + 1, p.blok.hmac, p.blok.index + 1, klyuch,
                                posetitel, Append(seen, p.blok))

\* kg_replay: result code, the blocks handed to the visitor and the file
kg_replay(exists, data, klyuch, posetitel) ==
    IF Len(klyuch) = 0 \/ Len(klyuch) > KOLIBRI_HMAC_KEY_SIZE
    THEN [ret |-> -1, visited |-> <<>>, exists |-> exists, data |-> data]
    ELSE LET fail == fopen(exists, "rb")
             r == kg_replay_loop(fgets(data), 1, ZeroHash, 0, klyuch, posetitel, <<>>)
         IN IF ~fail.ok THEN [ret |-> 1, visited |-> <<>>, exists |-> fail.exists, data |-> data]
            ELSE [ret |-> r.ret, visited |-> r.visited, exists |-> fail.exists, data |-> data]

\* kg_block_event_text / kg_block_payload_text
kg_block_event_text(blok) == kolibri_izluchit_utf8(blok.event_digits)
kg_block_payload_text(blok) == kolibri_izluchit_utf8(blok.payload_digits)


(***************************************************************************)
(* Formula pool (formula.c).  An int has IntBits bits and a long long      *)
(* twice as many.  A feedback value is a number of thousandths (FitOne     *)
(* stands for 1.0); a fitness is kept exactly, as the double value         *)
(* (milli + num / den) / 1000 with 0 <= num < den in lowest terms.         *)
(***************************************************************************)
FitOne == 1000

\* two's complement wrap-around of a signed value of the given width: what an
\* overflowing signed operation leaves in a build that does not trap (one
\* that traps ends the process, and no pool state follows)
WrapSigned(x, max) == ((x + max + 1) % (2 * (max + 1))) - (max + 1)

Dbl(milli) == [milli |-> milli, num |-> 0, den |-> 1]
DblAdd(a, milli) == [a EXCEPT !.milli = @ + milli]

\* a < b; the fractions are compared by cross-multiplication, each product
\* of two naturals below 2^20 kept in two limbs of base 1024
DblLess(a, b) ==
    LET Mul2(x, y) == [hi |-> (x \div 1024) * y + ((x % 1024) * y) \div 1024,
                       lo |-> ((x % 1024) * y) % 1024]
        LimbsLess(x, y) == x.hi < y.hi \/ (x.hi = y.hi /\ x.lo < y.lo)
    IN \/ a.milli < b.milli
       \/ a.milli = b.milli /\ LimbsLess(Mul2(a.num, b.den), Mul2(b.num, a.den))

\* 1.0 / x for x given in thousandths; the fraction is reduced by the greatest
\* common divisor of x and one million
Reciprocal(x) ==
    LET divisors == {p2 * p5 : p2 \in {1, 2, 4, 8, 16, 32, 64},
                               p5 \in {1, 5, 25, 125, 625, 3125, 15625}}
        g == CHOOSE h \in divisors : x % h = 0 /\ \A k \in divisors : x % k = 0 => k <= h
    IN [milli |-> (FitOne * FitOne) \div x,
        num |-> ((FitOne * FitOne) % x) \div g,
        den |-> x \div g]

\* KolibriRng: a deterministic generator with seed() and next(), here a
\* multiplicative congruential one; the state after a step is also the number
\* the step returns
k_rng_seed(seed) == (seed % 32748) + 1
k_rng_next(rng) == (rng * 75) % 32749

\* random_digit: the generator after the draw and the digit
random_digit(rng) ==
    LET r == k_rng_next(rng) IN [rng |-> r, digit |-> r % 10]

\* the generator after n draws: n steps multiply the state by the n-th power
\* of the multiplier
RECURSIVE k_rng_power(_)
k_rng_power(n) ==
    IF n = 0 THEN 1
    ELSE IF n % 2 = 0 THEN LET h == k_rng_power(n \div 2) IN (h * h) % 32749
    ELSE k_rng_next(k_rng_power(n - 1))

k_rng_skip(rng, n) == (rng * k_rng_power(n)) % 32749

\* gene_randomize: digit i of the gene is the i-th draw of random_digit
gene_randomize(rng, length) ==
    [rng |-> k_rng_skip(rng, length),
     gene |-> [i \in 1..length |-> k_rng_skip(rng, i) % 10]]

\* fnv1a32, of which the model keeps the low IntBits bits: xor and
\* multiplication act on the low bits alone, so these are the low bits of the
\* 32-bit hash (40389 and 403 are the low 16 bits of the offset basis
\* 2166136261 and of the prime 16777619)
RECURSIVE BitXor(_, _)
BitXor(a, b) ==
    IF b = 0 THEN a
    ELSE ((a + b) % 2) + 2 * BitXor(a \div 2, b \div 2)

RECURSIVE fnv1a32_from(_, _)
fnv1a32_from(hash, bytes) ==
    IF bytes = <<>> THEN hash
    ELSE fnv1a32_from((BitXor(hash, Head(bytes) % Pow2(IntBits)) * (403 % Pow2(IntBits)))
                          % Pow2(IntBits),
                      Tail(bytes))

\* kf_hash_from_text: kolibri_hash_to_int clears the sign bit of fnv1a32
kf_hash_from_text(text) == fnv1a32_from(40389 % Pow2(IntBits), text) % (INT_MAX + 1)

\* strncpy into a field of the given size whose last byte nobody writes:
\* a text that fits is stored whole and zero-padded
strncpy(text, size) == SubSeq(text, 1, IF Len(text) < size - 1 THEN Len(text) ELSE size - 1)

\* association_set fills a KolibriAssociation that lives on the caller's stack
\* and of which association_reset clears the first byte of each text only.
\* A question of QuestionSize - 1 bytes or more is copied without its
\* terminator, so the string that is hashed and stored runs on into the
\* indeterminate last byte of the field: that byte is zero, or it is not and
\* the string continues with the answer field that follows it in the struct.
association_set(question, answer) ==
    LET stored_answer == strncpy(answer, AnswerSize)
        questions ==
            IF Len(question) < QuestionSize - 1 THEN {question}
            ELSE {strncpy(question, QuestionSize)}
                 \cup {strncpy(question, QuestionSize) \o <<g>> \o stored_answer :
                         g \in IndeterminateBytes}
    IN {[input_hash |-> kf_hash_from_text(q), output_hash |-> kf_hash_from_text(stored_answer),
         question |-> q, answer |-> stored_answer] : q \in questions}

\* C integer division and remainder truncate toward zero
Abs(x) == IF x < 0 THEN -x ELSE x
CRem(a, b) == IF a >= 0 THEN a % Abs(b) ELSE -((-a) % Abs(b))

\* decode_signed / decode_bias / decode_operation; a gene index is 0-based
\* in the code and 1-based here
decode_signed(gene, offset) ==
    IF offset + 3 >= Len(gene) THEN [ok |-> FALSE, value |-> 0]
    ELSE [ok |-> TRUE,
          value |-> (IF gene[offset + 1] % 2 = 0 THEN 1 ELSE -1)
                    * (gene[offset + 2] * 10 + gene[offset + 3])]

decode_bias(gene, offset) ==
    IF offset + 2 >= Len(gene) THEN [ok |-> FALSE, value |-> 0]
    ELSE [ok |-> TRUE,
          value |-> (IF gene[offset + 1] % 2 = 0 THEN 1 ELSE -1)
                    * (gene[offset + 2] * 10 + gene[offset + 3])]

decode_operation(gene, offset) ==
    IF offset >= Len(gene) THEN [ok |-> FALSE, value |-> 0]
    ELSE [ok |-> TRUE, value |-> gene[offset + 1] % 4]

\* the clamp of the long long result to the range of int
Saturate32(x) == IF x > INT_MAX THEN INT_MAX ELSE IF x < -INT_MAX - 1 THEN -INT_MAX - 1 ELSE x

\* formula_predict_numeric: the long long arithmetic wraps around where it
\* overflows
formula_predict_numeric(gene, input) ==
    LET operation == decode_operation(gene, 0)
        slope == decode_signed(gene, 1)
        bias == decode_bias(gene, 4)
        auxiliary == decode_signed(gene, 7)
        divisor == IF auxiliary.value = 0 THEN 1 ELSE auxiliary.value
        result == CASE operation.value = 0 -> slope.value * input + bias.value
                    [] operation.value = 1 -> slope.value * input - bias.value
                    [] operation.value = 2 -> CRem(slope.value * input, divisor) + bias.value
                    [] OTHER -> slope.value * input * input + bias.value
    IN IF ~operation.ok \/ ~slope.ok \/ ~bias.ok \/ ~auxiliary.ok
       THEN [ok |-> FALSE, output |-> 0]
       ELSE [ok |-> TRUE, output |-> Saturate32(WrapSigned(result, LLONG_MAX))]

\* complexity_penalty, in thousandths: 0.001 for every unit of every digit
RECURSIVE complexity_penalty(_)
complexity_penalty(gene) ==
    IF gene = <<>> THEN 0 ELSE Head(gene) + complexity_penalty(Tail(gene))

\* the loop of evaluate_formula_numeric: diff is an int, and the subtraction
\* wraps around where it overflows
RECURSIVE total_error(_, _, _)
total_error(gene, pool, i) ==
    IF i > pool.examples THEN 0
    ELSE Abs(WrapSigned(pool.targets[i]
                          - formula_predict_numeric(gene, pool.inputs[i]).output, INT_MAX))
         + total_error(gene, pool, i + 1)

\* evaluate_formula_numeric: 1 / (1 + total error + penalty)
evaluate_formula_numeric(formula, pool) ==
    IF pool.examples = 0 THEN Dbl(0)
    ELSE IF \E i \in 1..pool.examples :
              ~formula_predict_numeric(formula.gene, pool.inputs[i]).ok
    THEN Dbl(0)
    ELSE Reciprocal(FitOne + FitOne * total_error(formula.gene, pool, 1)
                    + complexity_penalty(formula.gene))

\* apply_feedback_bonus: add the accumulator and clamp to [0, 1]
apply_feedback_bonus(formula, fitness) ==
    LET adjusted == DblAdd(fitness, formula.feedback)
    IN IF DblLess(adjusted, Dbl(0)) THEN Dbl(0)
       ELSE IF DblLess(Dbl(FitOne), adjusted) THEN Dbl(FitOne) ELSE adjusted

\* mutate_gene: one position, then one digit, drawn from the generator
mutate_gene(rng, gene) ==
    LET r1 == k_rng_next(rng)
        d == random_digit(r1)
    IN [rng |-> d.rng, gene |-> [gene EXCEPT ![(r1 % Len(gene)) + 1] = d.digit]]

\* a crossover that splits after the first third
\* a crossover whose child ends at the split
crossover_keeps_half(parent_a, parent_b) ==
    SubSeq(parent_a, 1, Len(parent_a) \div 2)

crossover_at_third(parent_a, parent_b) ==
    LET split == Len(parent_a) \div 3
    IN [i \in 1..Len(parent_a) |-> IF i - 1 < split THEN parent_a[i] ELSE parent_b[i]]

\* crossover: the first half of parent_a, the rest of parent_b
crossover(parent_a, parent_b) ==
    LET split == Len(parent_a) \div 2
    IN [i \in 1..Len(parent_a) |-> IF i - 1 < split THEN parent_a[i] ELSE parent_b[i]]

\* compare_formulas orders by descending fitness
compare_formulas(a, b) == IF DblLess(a.fitness, b.fitness) THEN 1
                          ELSE IF DblLess(b.fitness, a.fitness) THEN -1 ELSE 0

\* qsort with compare_formulas: the order of elements that compare equal is
\* left open, so the result is any arrangement that compare_formulas accepts
RECURSIVE qsort(_)
qsort(formulas) ==
    IF formulas = <<>> THEN {<<>>}
    ELSE LET first == {i \in 1..Len(formulas) :
                         \A j \in 1..Len(formulas) :
                            compare_formulas(formulas[i], formulas[j]) <= 0}
             without(i) == SubSeq(formulas, 1, i - 1) \o SubSeq(formulas, i + 1, Len(formulas))
         IN UNION {{<<formulas[i]>> \o rest : rest \in qsort(without(i))} : i \in first}

\* a KolibriFormula; its associations array is kept up to association_count,
\* which is as far as the code reads it
Formula(gene) == [gene |-> gene, fitness |-> Dbl(0), feedback |-> 0,
                  associations |-> <<>>, association_count |-> 0]

\* reproduce: slots from the elite count on are refilled, in slot order
RECURSIVE reproduce_from(_, _, _)
reproduce_from(pool, i, elite) ==
    IF i >= pool.count THEN pool
    ELSE LET parent_a_index == i % elite
             parent_b_index == (i + 1) % elite
             child == crossover(pool.formulas[parent_a_index + 1].gene,
                                pool.formulas[parent_b_index + 1].gene)
             m == mutate_gene(pool.rng, child)
         IN reproduce_from([pool EXCEPT !.rng = m.rng, !.formulas[i + 1] = Formula(m.gene)],
                           i + 1, elite)

reproduce(pool) ==
    LET elite == IF pool.count \div 3 = 0 THEN 1 ELSE pool.count \div 3
    IN reproduce_from(pool, elite, elite)

\* a copy_dataset_into_formula that copies the whole table of the pool
copy_dataset_whole(pool, formula) ==
    [formula EXCEPT !.association_count = pool.association_count,
                    !.associations = pool.associations]

\* copy_dataset_into_formula
copy_dataset_into_formula(pool, formula) ==
    LET limit == IF pool.association_count > KOLIBRI_FORMULA_MAX_ASSOCIATIONS
                 THEN KOLIBRI_FORMULA_MAX_ASSOCIATIONS
                 ELSE pool.association_count
    IN [formula EXCEPT !.association_count = limit,
                       !.associations = SubSeq(pool.associations, 1, limit)]

\* kf_pool_init: the genes are randomized in slot order, so formula i starts
\* where the draws of the formulas before it end
kf_pool_init(seed) ==
    LET rng == k_rng_seed(seed)
    IN [formulas |-> [i \in 1..PoolFormulas |->
                        Formula(gene_randomize(k_rng_skip(rng, (i - 1) * GeneDigits),
                                               GeneDigits).gene)],
        count |-> PoolFormulas, rng |-> k_rng_skip(rng, PoolFormulas * GeneDigits),
        inputs |-> <<>>, targets |-> <<>>, examples |-> 0,
        associations |-> <<>>, association_count |-> 0]

\* kf_pool_clear_examples: the example buffer and the association table are
\* emptied together
kf_pool_clear_examples(pool) ==
    [pool EXCEPT !.inputs = <<>>, !.targets = <<>>, !.examples = 0,
                 !.associations = <<>>, !.association_count = 0]

\* a kf_pool_add_example that drops the oldest example of a full buffer
kf_pool_add_example_evicting(pool, input, target) ==
    IF pool.examples >= PoolExamples
    THEN [ret |-> 0,
          pool |-> [pool EXCEPT !.inputs = Append(Tail(pool.inputs), input),
                                !.targets = Append(Tail(pool.targets), target)]]
    ELSE [ret |-> 0,
          pool |-> [pool EXCEPT !.inputs = Append(pool.inputs, input),
                                !.targets = Append(pool.targets, target),
                                !.examples = pool.examples + 1]]

\* kf_pool_add_example: result code and pool
kf_pool_add_example(pool, input, target) ==
    IF pool.examples >= PoolExamples THEN [ret |-> -1, pool |-> pool]
    ELSE [ret |-> 0,
          pool |-> [pool EXCEPT !.inputs = Append(pool.inputs, input),
                                !.targets = Append(pool.targets, target),
                                !.examples = pool.examples + 1]]

\* kf_pool_add_association: the results the call may have, one for each string
\* association_set may leave in assoc; the table is updated first, and the
\* result is that of kf_pool_add_example
kf_pool_add_association(pool, question, answer) ==
    LET found(assoc) == {i \in 1..pool.association_count :
                           /\ pool.associations[i].input_hash = assoc.input_hash
                           /\ pool.associations[i].question = assoc.question}
        table(assoc) ==
            IF found(assoc) # {}
            THEN [pool EXCEPT !.associations[Min(found(assoc))] = assoc]
            ELSE IF pool.association_count >= KOLIBRI_POOL_MAX_ASSOCIATIONS
            THEN [pool EXCEPT !.associations = Append(Tail(pool.associations), assoc)]
            ELSE [pool EXCEPT !.associations = Append(pool.associations, assoc),
                              !.association_count = pool.association_count + 1]
    IN {kf_pool_add_example(table(assoc), assoc.input_hash, assoc.output_hash) :
          assoc \in association_set(question, answer)}

\* one generation of kf_pool_tick: evaluate, sort, reproduce
generation(pool) ==
    LET scored == [pool EXCEPT !.formulas =
                     [i \in 1..pool.count |->
                        [pool.formulas[i] EXCEPT !.fitness =
                           apply_feedback_bonus(pool.formulas[i],
                               evaluate_formula_numeric(pool.formulas[i], pool))]]]
    IN {reproduce([scored EXCEPT !.formulas = sorted]) : sorted \in qsort(scored.formulas)}

RECURSIVE generations_of(_, _)
generations_of(pools, g) ==
    IF g = 0 THEN pools
    ELSE generations_of(UNION {generation(q) : q \in pools}, g - 1)

\* evaluate_association_fitness
evaluate_association_fitness(pool) ==
    IF pool.association_count = 0 THEN Dbl(0) ELSE Dbl(FitOne)

\* the closing step of kf_pool_tick: the best formulas receive the associations
best_get_associations(pool) ==
    IF pool.association_count = 0 THEN {pool}
    ELSE LET limit == IF pool.count < 3 THEN pool.count ELSE 3
             given == [i \in 1..pool.count |->
                         IF i <= limit
                         THEN [copy_dataset_into_formula(pool, pool.formulas[i]) EXCEPT
                                 !.fitness = evaluate_association_fitness(pool)]
                         ELSE pool.formulas[i]]
         IN {[pool EXCEPT !.formulas = sorted] : sorted \in qsort(given)}

\* a kf_pool_tick that returns at once when asked for no generation
kf_pool_tick_zero_returns(pool, generations) ==
    IF pool.count = 0 \/ generations = 0 THEN {pool}
    ELSE UNION {best_get_associations(q) : q \in generations_of({pool}, generations)}

\* kf_pool_tick: the pools the call may leave behind
kf_pool_tick(pool, generations) ==
    IF pool.count = 0 THEN {pool}
    ELSE UNION {best_get_associations(q) :
                  q \in generations_of({pool}, IF generations = 0 THEN 1 ELSE generations)}

\* a kf_formula_apply that evaluates the gene before it looks at the associations
kf_formula_apply_gene_first(formula, input) ==
    LET known == {i \in 1..formula.association_count :
                    formula.associations[i].input_hash = input}
        r == formula_predict_numeric(formula.gene, input)
    IN IF ~r.ok THEN [ret |-> -1, output |-> 0]
       ELSE IF known # {}
       THEN [ret |-> 0, output |-> formula.associations[Min(known)].output_hash]
       ELSE [ret |-> 0, output |-> r.output]

\* kf_formula_apply: a stored association answers first, the gene otherwise
kf_formula_apply(formula, input) ==
    LET known == {i \in 1..formula.association_count :
                    formula.associations[i].input_hash = input}
    IN IF known # {}
       THEN [ret |-> 0,
             output |-> formula.associations[Min(known)].output_hash]
       ELSE LET r == formula_predict_numeric(formula.gene, input)
            IN [ret |-> IF r.ok THEN 0 ELSE -1, output |-> r.output]

\* an adjust_feedback whose accumulator grows without bound
adjust_feedback_unbounded(formula, delta) ==
    LET fit == DblAdd(formula.fitness, delta)
    IN [formula EXCEPT
          !.feedback = formula.feedback + delta,
          !.fitness = IF DblLess(fit, Dbl(0)) THEN Dbl(0) ELSE fit]

\* adjust_feedback: the accumulator saturates at -1 and 1, the fitness is
\* floored at 0
adjust_feedback(formula, delta) ==
    LET fb == formula.feedback + delta
        fit == DblAdd(formula.fitness, delta)
    IN [formula EXCEPT
          !.feedback = IF fb > FitOne THEN FitOne ELSE IF fb < -FitOne THEN -FitOne ELSE fb,
          !.fitness = IF DblLess(fit, Dbl(0)) THEN Dbl(0) ELSE fit]

\* the upward and downward bubble loops of kf_pool_feedback (index 0-based)
RECURSIVE bubble_up(_, _)
bubble_up(formulas, index) ==
    IF index > 0 /\ DblLess(formulas[index].fitness, formulas[index + 1].fitness)
    THEN bubble_up([formulas EXCEPT ![index] = formulas[index + 1],
                                    ![index + 1] = formulas[index]], index - 1)
    ELSE formulas

RECURSIVE bubble_down(_, _)
bubble_down(formulas, index) ==
    IF index + 1 < Len(formulas) /\ DblLess(formulas[index + 1].fitness, formulas[index + 2].fitness)
    THEN bubble_down([formulas EXCEPT ![index + 2] = formulas[index + 1],
                                      ![index + 1] = formulas[index + 2]], index + 1)
    ELSE formulas

\* a kf_pool_feedback that adjusts the formula and leaves it in its slot
kf_pool_feedback_in_place(pool, gene, delta) ==
    LET found == {i \in 1..pool.count : pool.formulas[i].gene = gene}
    IN IF found = {} THEN [ret |-> -1, pool |-> pool]
       ELSE [ret |-> 0,
             pool |-> [pool EXCEPT !.formulas[Min(found)] =
                          adjust_feedback(pool.formulas[Min(found)], delta)]]

\* a kf_pool_feedback that compares the digits of the given gene and not the
\* lengths
kf_pool_feedback_any_length(pool, gene, delta) ==
    LET found == {i \in 1..pool.count :
                    SubSeq(pool.formulas[i].gene, 1, Len(gene)) = gene}
    IN IF pool.count = 0 \/ found = {} THEN [ret |-> -1, pool |-> pool]
       ELSE LET i == Min(found)
                adjusted == [pool.formulas EXCEPT ![i] = adjust_feedback(pool.formulas[i], delta)]
            IN [ret |-> 0,
                pool |-> [pool EXCEPT !.formulas =
                            IF delta > 0 THEN bubble_up(adjusted, i - 1)
                            ELSE IF delta < 0 THEN bubble_down(adjusted, i - 1)
                            ELSE adjusted]]

\* a kf_pool_feedback that rates the last formula that carries the gene
kf_pool_feedback_last_match(pool, gene, delta) ==
    LET found == {i \in 1..pool.count : pool.formulas[i].gene = gene}
    IN IF pool.count = 0 \/ found = {} THEN [ret |-> -1, pool |-> pool]
       ELSE LET i == CHOOSE k \in found : \A m \in found : m <= k
                adjusted == [pool.formulas EXCEPT ![i] = adjust_feedback(pool.formulas[i], delta)]
            IN [ret |-> 0,
                pool |-> [pool EXCEPT !.formulas =
                            IF delta > 0 THEN bubble_up(adjusted, i - 1)
                            ELSE IF delta < 0 THEN bubble_down(adjusted, i - 1)
                            ELSE adjusted]]

\* kf_pool_feedback: result code and pool
kf_pool_feedback(pool, gene, delta) ==
    LET found == {i \in 1..pool.count : pool.formulas[i].gene = gene}
    IN IF pool.count = 0 \/ found = {} THEN [ret |-> -1, pool |-> pool]
       ELSE LET i == Min(found)
                adjusted == [pool.formulas EXCEPT ![i] = adjust_feedback(pool.formulas[i], delta)]
            IN [ret |-> 0,
                pool |-> [pool EXCEPT !.formulas =
                            IF delta > 0 THEN bubble_up(adjusted, i - 1)
                            ELSE IF delta < 0 THEN bubble_down(adjusted, i - 1)
                            ELSE adjusted]]

\* kf_pool_best
kf_pool_best(pool) == pool.formulas[1]

(***************************************************************************)
(* Wire messages (net.c).  A byte is a number 0..255.  kolibri/net.h is    *)
(* not among the sources: the message types are tagged 1, 2, 3, and a      *)
(* message is a record of its type and the fields of that type.  The host  *)
(* is little-endian; a fitness is given by the eight bytes of the double   *)
(* in memory.                                                              *)
(***************************************************************************)
KolibriNetMessageType ==
    [KOLIBRI_MSG_HELLO |-> 1, KOLIBRI_MSG_MIGRATE_RULE |-> 2, KOLIBRI_MSG_ACK |-> 3]
KOLIBRI_HEADER_SIZE == 3
KOLIBRI_MAX_PAYLOAD == 256

\* a conversion that leaves the value in the byte order of the host
hton_host_order(value, size) == [i \in 1..size |-> (value \div Pow(256, i - 1)) % 256]

\* htons / htonl and the memcpy that follows: the bytes of the value, most
\* significant first
hton(value, size) == [i \in 1..size |-> (value \div Pow(256, size - i)) % 256]

\* memcpy and the ntohs / ntohl that follows
RECURSIVE ntoh(_)
ntoh(bytes) ==
    IF bytes = <<>> THEN 0
    ELSE 256 * ntoh(SubSeq(bytes, 1, Len(bytes) - 1)) + bytes[Len(bytes)]

\* kolibri_htonll / kolibri_ntohll between two memcpy: the eight bytes in
\* reverse order
kolibri_htonll(bytes) == [i \in 1..Len(bytes) |-> bytes[Len(bytes) + 1 - i]]

\* kolibri_write_header: the header, empty for the result 0
kolibri_write_header(buffer_len, type, payload_length) ==
    IF buffer_len < KOLIBRI_HEADER_SIZE THEN <<>>
    ELSE <<type>> \o hton(payload_length, 2)

\* the end of the three encoders: the bytes written, empty for the result 0
kn_message_encode(buffer_len, type, payload) ==
    LET header == kolibri_write_header(buffer_len, type, Len(payload))
    IN IF header = <<>> \/ buffer_len < Len(header) + Len(payload) THEN <<>>
       ELSE header \o payload

kn_message_encode_hello(buffer_len, node_id) ==
    kn_message_encode(buffer_len, KolibriNetMessageType.KOLIBRI_MSG_HELLO, hton(node_id, 4))

\* kn_message_encode_formula; kf_formula_digits hands over the gene when it
\* fits the digits array and nothing otherwise
kn_message_encode_formula(buffer_len, node_id, formula) ==
    LET digit_len == IF Len(formula.gene) <= GeneDigits THEN Len(formula.gene) ELSE 0
    IN IF digit_len = 0 THEN <<>>
       ELSE kn_message_encode(buffer_len, KolibriNetMessageType.KOLIBRI_MSG_MIGRATE_RULE,
                              hton(node_id, 4) \o <<digit_len>> \o formula.gene
                                  \o kolibri_htonll(formula.fitness))

kn_message_encode_ack(buffer_len, status) ==
    kn_message_encode(buffer_len, KolibriNetMessageType.KOLIBRI_MSG_ACK, <<status>>)

\* kn_message_decode: the result and, for the result 0, the message
kn_message_decode(buffer) ==
    LET failed == [ret |-> -1, message |-> [type |-> 0]]
        payload_len == ntoh(SubSeq(buffer, 2, 3))
        payload == SubSeq(buffer, KOLIBRI_HEADER_SIZE + 1, KOLIBRI_HEADER_SIZE + payload_len)
        length == payload[5]
    IN IF Len(buffer) < KOLIBRI_HEADER_SIZE THEN failed
       ELSE IF Len(buffer) < KOLIBRI_HEADER_SIZE + payload_len THEN failed
       ELSE CASE buffer[1] = KolibriNetMessageType.KOLIBRI_MSG_HELLO ->
                   IF payload_len # 4 THEN failed
                   ELSE [ret |-> 0, message |-> [type |-> buffer[1], node_id |-> ntoh(payload)]]
              [] buffer[1] = KolibriNetMessageType.KOLIBRI_MSG_MIGRATE_RULE ->
                   IF payload_len < 4 + 1 + 8 THEN failed
                   ELSE IF length > GeneDigits \/ payload_len < 5 + length + 8 THEN failed
                   ELSE [ret |-> 0,
                         message |-> [type |-> buffer[1],
                                      node_id |-> ntoh(SubSeq(payload, 1, 4)),
                                      length |-> length,
                                      digits |-> SubSeq(payload, 6, 5 + length),
                                      fitness |-> kolibri_htonll(SubSeq(payload, 6 + length,
                                                                        13 + length))]]
              [] buffer[1] = KolibriNetMessageType.KOLIBRI_MSG_ACK ->
                   IF payload_len # 1 THEN failed
                   ELSE [ret |-> 0, message |-> [type |-> buffer[1], status |-> payload[1]]]
              [] OTHER -> failed

(***************************************************************************)
(* One connection of a listener (kn_listener_poll) and a peer.  The peer   *)
(* is kn_share_formula or a program that writes frames of its own.  A step *)
(* of the listener is one SSL_read of kolibri_tls_read_all with what       *)
(* follows it up to the next SSL_read.                                     *)
(***************************************************************************)
MaxFrames == 2         \* frames a peer of its own sends on a connection

\* the listener in select() with no connection pending, the peer not started
NetStart ==
    [peer |-> [pc |-> "idle", kind |-> "none", node_id |-> 0, formula |-> <<>>,
               result |-> -1, sent |-> <<>>],
     wire |-> <<>>,
     poll |-> [pc |-> "select", accepted |-> FALSE, buffer |-> <<>>, has_last |-> FALSE,
               last_message |-> [type |-> 0], result |-> -1,
               out_message |-> [type |-> 0], expired |-> 0]]

\* kn_listener_poll from one blocking call to the next.  select() returns 0
\* when no peer has connected; accept() and SSL_accept() take the peer that
\* has.  An SSL_read hands over the bytes that have arrived, fails when the
\* peer has closed, and otherwise ends with the receive timeout of the socket,
\* which SSL_get_error reports as SSL_ERROR_WANT_READ.
kn_listener_poll(n) ==
    LET p == n.poll
        cleanup(result, message) ==
            [n EXCEPT !.poll.pc = "returned", !.poll.result = result,
                      !.poll.out_message = message]
        after_loop == IF p.has_last THEN cleanup(1, p.last_message)
                      ELSE cleanup(p.result, p.out_message)
        got(buffer, rest) ==
            LET decoded == kn_message_decode(buffer)
            IN IF decoded.ret = 0
               THEN IF decoded.message.type = KolibriNetMessageType.KOLIBRI_MSG_MIGRATE_RULE
                    THEN [n EXCEPT !.wire = rest, !.poll.pc = "returned", !.poll.result = 1,
                                   !.poll.out_message = decoded.message,
                                   !.poll.has_last = TRUE,
                                   !.poll.last_message = decoded.message,
                                   !.poll.buffer = buffer]
                    ELSE [n EXCEPT !.wire = rest, !.poll.pc = "header", !.poll.buffer = <<>>,
                                   !.poll.has_last = TRUE,
                                   !.poll.last_message = decoded.message]
               ELSE [after_loop EXCEPT !.wire = rest, !.poll.buffer = buffer]
        need == IF p.pc = "header" THEN KOLIBRI_HEADER_SIZE
                ELSE KOLIBRI_HEADER_SIZE + ntoh(SubSeq(p.buffer, 2, 3))
        received == IF Len(n.wire) < need - Len(p.buffer) THEN Len(n.wire)
                    ELSE need - Len(p.buffer)
        buffer == p.buffer \o SubSeq(n.wire, 1, received)
        rest == SubSeq(n.wire, received + 1, Len(n.wire))
    IN CASE p.pc = "select" ->
              IF n.peer.pc = "connecting"
              THEN [n EXCEPT !.peer.pc = "open", !.poll.pc = "header", !.poll.accepted = TRUE]
              ELSE cleanup(0, p.out_message)
         [] p.pc \in {"header", "payload"} ->
              IF n.wire # <<>>
              THEN IF Len(buffer) < need
                   THEN [n EXCEPT !.wire = rest, !.poll.buffer = buffer]
                   ELSE IF p.pc = "payload" THEN got(buffer, rest)
                   ELSE IF ntoh(SubSeq(buffer, 2, 3)) > KOLIBRI_MAX_PAYLOAD
                        THEN [after_loop EXCEPT !.wire = rest, !.poll.buffer = buffer]
                   ELSE IF ntoh(SubSeq(buffer, 2, 3)) = 0 THEN got(buffer, rest)
                   ELSE [n EXCEPT !.wire = rest, !.poll.buffer = buffer,
                                  !.poll.pc = "payload"]
              ELSE IF n.peer.pc = "closed" THEN after_loop
              ELSE [n EXCEPT !.poll.expired = 1 - @]
         [] OTHER -> n

\* kn_share_formula after SSL_connect: the frames it writes and its result
kn_share_formula(node_id, formula) ==
    LET size == KOLIBRI_HEADER_SIZE + KOLIBRI_MAX_PAYLOAD
        hello == kn_message_encode_hello(size, node_id)
        rule == kn_message_encode_formula(size, node_id, formula)
    IN IF hello = <<>> THEN [sent |-> <<>>, result |-> -1]
       ELSE IF rule = <<>> THEN [sent |-> <<hello>>, result |-> -1]
       ELSE [sent |-> <<hello, rule>>, result |-> 0]

(***************************************************************************)
(* The runtime (kolibri_runtime.c).  Event names and payloads are cut to   *)
(* the one byte a field of the ledger holds here: BOOT, EVOLVE, ASK and    *)
(* USER_FEEDBACK are their first letters.                                  *)
(***************************************************************************)
RuntimeCalls == 3      \* calls on a runtime after kolibri_runtime_start

KOLIBRI_HMAC_KEY == <<107, 111>>

RuntimeEvent == [BOOT |-> <<66>>, EVOLVE |-> <<69>>, ASK |-> <<65>>, USER_FEEDBACK |-> <<85>>]

\* a KolibriRuntime that has not been started
RuntimeIdle ==
    [started |-> FALSE, genome_ready |-> FALSE, last_gene_valid |-> FALSE, last_gene |-> <<>>,
     last_question |-> 0, last_answer |-> 0, done |-> <<>>, lost |-> 0, left |-> RuntimeCalls,
     op |-> "none", ret |-> 0]

\* a reset that clears the question and the answer and leaves the gene marked
\* valid
kolibri_runtime_reset_keeps_gene(r) ==
    [r EXCEPT !.last_question = 0, !.last_answer = 0]

\* kolibri_runtime_reset_last_answer
kolibri_runtime_reset_last_answer(r) ==
    [r EXCEPT !.last_gene_valid = FALSE, !.last_question = 0, !.last_answer = 0,
              !.last_gene = <<>>]

\* kolibri_runtime_record_event: result code, the genome context after the
\* call and the bytes written to the file
kolibri_runtime_record_event(genome_ready, kontekst, event, payload, vremya, fault) ==
    IF ~genome_ready THEN [ret |-> -1, kontekst |-> kontekst, zapis |-> <<>>]
    ELSE LET r == kg_append(kontekst, event, payload, vremya, fault)
         IN [ret |-> IF r.ret # 0 THEN -1 ELSE 0, kontekst |-> r.kontekst, zapis |-> r.zapis]

(***************************************************************************)
(* State                                                                   *)
(***************************************************************************)
VARIABLES
    fileExists,   \* whether the ledger path exists
    fileData,     \* the bytes of the ledger file
    genome,       \* the KolibriGenome context
    last,         \* the last call: its name, key, result, the blocks it handed out,
                  \* its other argument (tampered position or rejecting visitor)
                  \* and the context and file before it
    appended,     \* the (key, event, payload) of every successful kg_append, in order
    tampered,     \* whether a foreign writer has overwritten a byte of the file
    pool,         \* the KolibriFormulaPool
    plast,        \* the last pool call: its name, result, arguments and the pool
                  \* before it
    pcalls,       \* how many kf_pool_tick, kf_pool_feedback and kf_pool_add_association
                  \* calls the run has left
    twin,         \* a second KolibriFormulaPool of the same seed, given the same
                  \* calls as pool in the runs that compare two pools
    call,         \* the last call of a function that keeps no state: its name, its
                  \* arguments and what it returned
    net,          \* a listener in kn_listener_poll, the peer that connects to it
                  \* and the bytes on their connection
    runtime       \* the KolibriRuntime besides its pool and genome, the calls that
                  \* succeeded and the records kg_append refused

ledgerVars == <<fileExists, fileData, genome, last, appended, tampered>>
poolVars == <<pool, plast, pcalls, twin>>
appVars == <<call, net, runtime>>

ZeroGenome == [file |-> FALSE, last_hash |-> ZeroHash, hmac_key |-> <<>>, hmac_key_len |-> 0,
               path |-> FALSE, next_index |-> 0]

Call(op, ret, klyuch, visited, arg) ==
    [op |-> op, ret |-> ret, klyuch |-> klyuch, visited |-> visited, arg |-> arg,
     genome0 |-> genome, exists0 |-> fileExists, data0 |-> fileData]

LedgerInit ==
    /\ fileExists = FALSE
    /\ fileData = <<>>
    /\ genome = ZeroGenome
    /\ last = [op |-> "init", ret |-> 0, klyuch |-> <<>>, visited |-> <<>>, arg |-> 0,
               genome0 |-> ZeroGenome, exists0 |-> FALSE, data0 |-> <<>>]
    /\ appended = <<>>
    /\ tampered = FALSE
    /\ call = [op |-> "none", arg |-> <<>>, ret |-> 0]
    /\ net = NetStart
    /\ runtime = RuntimeIdle

(***************************************************************************)
(* Ledger actions                                                          *)
(***************************************************************************)
KgOpen ==
    \E klyuch \in Keys :
        \E r \in {kg_open(genome, fileExists, fileData, klyuch)} :
           /\ genome' = r.kontekst
           /\ fileExists' = r.exists
           /\ fileData' = r.data
           /\ last' = Call("open", r.ret, klyuch, <<>>, 0)
           /\ UNCHANGED <<appended, tampered, poolVars, appVars>>

KgClose ==
    /\ genome' = kg_close(genome)
    /\ last' = Call("close", 0, <<>>, <<>>, 0)
    /\ UNCHANGED <<fileExists, fileData, appended, tampered, poolVars, appVars>>

KgAppend ==
    /\ genome.next_index < MaxIndex
    /\ Len(fgets(fileData)) < MaxRecords
    /\ \E tip_sobytiya \in EventTexts, nagruzka \in PayloadTexts,
          vremya \in Timestamps, fault \in Faults :
        \E r \in {kg_append(genome, tip_sobytiya, nagruzka, vremya, fault)} :
           /\ genome' = r.kontekst
           /\ fileData' = fileData \o r.zapis
           /\ last' = Call("append", r.ret, genome.hmac_key, <<r.blok>>, 0)
           /\ appended' = IF r.ret = 0
                          THEN Append(appended, [klyuch |-> genome.hmac_key,
                                                 event |-> tip_sobytiya, payload |-> nagruzka])
                          ELSE appended
           /\ UNCHANGED <<fileExists, tampered, poolVars, appVars>>

KgVerifyFile ==
    \E klyuch \in Keys :
        \E r \in {kg_verify_file(fileExists, fileData, klyuch)} :
           /\ fileExists' = r.exists
           /\ fileData' = r.data
           /\ last' = Call("verify", r.ret, klyuch, <<>>, 0)
           /\ UNCHANGED <<genome, appended, tampered, poolVars, appVars>>

\* the visitor either accepts every block or rejects the block of one index
Visitors == {{}} \cup {{i} : i \in 0..(AuditRecords - 2)}

KgReplay ==
    \E klyuch \in Keys, posetitel \in Visitors :
        \E r \in {kg_replay(fileExists, fileData, klyuch, posetitel)} :
           /\ fileExists' = r.exists
           /\ fileData' = r.data
           /\ last' = Call("replay", r.ret, klyuch, r.visited, posetitel)
           /\ UNCHANGED <<genome, appended, tampered, poolVars, appVars>>

\* a foreign writer replaces one byte of a closed, so far valid ledger file by
\* another value
Tamper ==
    /\ fileExists
    /\ ~genome.file
    /\ ~tampered
    /\ \E klyuch \in Keys : kg_verify_file(fileExists, fileData, klyuch).ret = 0
    /\ \E pos \in 1..Len(fileData), c \in TamperChars :
        /\ c # fileData[pos]
        /\ fileData' = [fileData EXCEPT ![pos] = c]
        /\ last' = Call("tamper", 0, <<>>, <<>>, pos)
    /\ tampered' = TRUE
    /\ UNCHANGED <<fileExists, genome, appended, poolVars, appVars>>

(***************************************************************************)
(* Pool actions                                                            *)
(***************************************************************************)
PoolCall(op, ret, arg) == [op |-> op, ret |-> ret, arg |-> arg, pool0 |-> pool]

\* the pool as kf_pool_init leaves it, and the calls the run will make
PoolStart(seed, calls) ==
    /\ pool = kf_pool_init(seed)
    /\ plast = [op |-> "init", ret |-> 0, arg |-> <<seed>>, pool0 |-> kf_pool_init(seed)]
    /\ pcalls = calls
    /\ twin = kf_pool_init(seed)

\* a run that teaches examples, evolves and rates formulas
PoolInit ==
    \E seed \in Seeds :
        PoolStart(seed, [ticks |-> MaxTicks, feedbacks |-> MaxFeedbacks, teaches |-> 0])

\* a process that never touches its pool
PoolIdle ==
    PoolStart(CHOOSE seed \in Seeds : TRUE, [ticks |-> 0, feedbacks |-> 0, teaches |-> 0])

KfPoolAddExample ==
    \E e \in Examples :
        \E r \in {kf_pool_add_example(pool, e[1], e[2])} :
           /\ pool' = r.pool
           /\ plast' = PoolCall("add_example", r.ret, e)
           /\ UNCHANGED <<pcalls, twin, ledgerVars, appVars>>

KfPoolClearExamples ==
    /\ pool' = kf_pool_clear_examples(pool)
    /\ plast' = PoolCall("clear_examples", 0, <<>>)
    /\ UNCHANGED <<pcalls, twin, ledgerVars, appVars>>

KfPoolAddAssociation ==
    /\ pcalls.teaches > 0
    /\ \E question \in Questions, answer \in Answers :
        \E r \in kf_pool_add_association(pool, question, answer) :
           /\ pool' = r.pool
           /\ plast' = PoolCall("add_association", r.ret, <<question, answer>>)
    /\ pcalls' = [pcalls EXCEPT !.teaches = @ - 1]
    /\ UNCHANGED <<twin, ledgerVars, appVars>>

KfPoolTick ==
    /\ pcalls.ticks > 0
    /\ \E generations \in TickGenerations :
        /\ pool' \in kf_pool_tick(pool, generations)
        /\ plast' = PoolCall("tick", 0, <<>>)
    /\ pcalls' = [pcalls EXCEPT !.ticks = @ - 1]
    /\ UNCHANGED <<twin, ledgerVars, appVars>>

\* the genes a caller names: that of any formula of the pool, or one that no
\* formula carries, the gene of the best formula without its last digit
AbsentGene == SubSeq(pool.formulas[1].gene, 1, GeneDigits - 1)
FeedbackGenes == {pool.formulas[i].gene : i \in 1..pool.count} \cup {AbsentGene}

KfPoolFeedback ==
    /\ pcalls.feedbacks > 0
    /\ \E gene \in FeedbackGenes, delta \in Deltas :
        \E r \in {kf_pool_feedback(pool, gene, delta)} :
           /\ pool' = r.pool
           /\ plast' = PoolCall("feedback", r.ret, <<gene, delta>>)
    /\ pcalls' = [pcalls EXCEPT !.feedbacks = @ - 1]
    /\ UNCHANGED <<twin, ledgerVars, appVars>>


vars == <<fileExists, fileData, genome, last, appended, tampered, pool, plast, pcalls, twin,
         call, net, runtime>>

Init == LedgerInit /\ PoolIdle

\* the ledger used through its own operations only
Next == KgOpen \/ KgClose \/ KgAppend \/ KgVerifyFile \/ KgReplay

Spec == Init /\ [][Next]_vars

(***************************************************************************)
(* Auditing ledgers left behind by earlier runs.  The file is one that a   *)
(* run of kg_open, up to AuditRecords successful kg_append calls and       *)
(* kg_close wrote (or the path is missing); a foreign writer may then      *)
(* overwrite one byte, and the file is verified, replayed and reopened.    *)
(***************************************************************************)
RECURSIVE WrittenBy(_, _)
WrittenBy(klyuch, n) ==
    IF n = 0
    THEN {[kontekst |-> kg_open(ZeroGenome, FALSE, <<>>, klyuch).kontekst,
           data |-> <<>>, appended |-> <<>>]}
    ELSE LET steps == {[w |-> w, ev |-> ev, pl |-> pl,
                        r |-> kg_append(w.kontekst, ev, pl, ts, "none")] :
                          w \in WrittenBy(klyuch, n - 1), ev \in EventTexts,
                          pl \in PayloadTexts, ts \in Timestamps}
         IN {[kontekst |-> x.r.kontekst, data |-> x.w.data \o x.r.zapis,
              appended |-> Append(x.w.appended, [klyuch |-> klyuch, event |-> x.ev,
                                                 payload |-> x.pl])] :
               x \in {y \in steps : y.r.ret = 0}}

AuditFiles == UNION {WrittenBy(klyuch, n) : klyuch \in Keys, n \in 0..AuditRecords}

AuditInit ==
    /\ genome = ZeroGenome
    /\ tampered = FALSE
    /\ \/ /\ fileExists = FALSE
          /\ fileData = <<>>
          /\ appended = <<>>
       \/ \E w \in AuditFiles :
          /\ fileExists = TRUE
          /\ fileData = w.data
          /\ appended = w.appended
    /\ last = [op |-> "init", ret |-> 0, klyuch |-> <<>>, visited |-> <<>>, arg |-> 0,
               genome0 |-> ZeroGenome, exists0 |-> fileExists, data0 |-> fileData]
    /\ call = [op |-> "none", arg |-> <<>>, ret |-> 0]
    /\ net = NetStart
    /\ runtime = RuntimeIdle
    /\ PoolIdle

NextAudit == Tamper \/ KgVerifyFile \/ KgReplay \/ KgOpen \/ KgClose

SpecAudit == AuditInit /\ [][NextAudit]_vars

(***************************************************************************)
(* The formula pool of a node: examples are taught, generations run and    *)
(* genes are rated.                                                        *)
(***************************************************************************)
InitPool == LedgerInit /\ PoolInit

NextPool == KfPoolAddExample \/ KfPoolTick \/ KfPoolFeedback

SpecPool == InitPool /\ [][NextPool]_vars

\* a run on a fresh ledger and a fresh pool with the given numbers of
\* kf_pool_tick, kf_pool_feedback and kf_pool_add_association calls
PoolRun(ticks, feedbacks, teaches) ==
    /\ LedgerInit
    /\ \E seed \in Seeds :
          PoolStart(seed, [ticks |-> ticks, feedbacks |-> feedbacks, teaches |-> teaches])

\* the example buffer filled, emptied and evolved over
NextExamples == KfPoolAddExample \/ KfPoolClearExamples \/ KfPoolTick

SpecExamples == PoolRun(TeachTicks, 0, 0) /\ [][NextExamples]_vars

\* the pool taught by associations too
NextTeach == KfPoolAddAssociation \/ KfPoolClearExamples \/ KfPoolTick

SpecTeach == PoolRun(TeachTicks, 0, MaxTeaches) /\ [][NextTeach]_vars

\* Two pools of one seed given the same calls, each call made on pool and on
\* twin.  qsort is a function of the array it is given, so two equal pools
\* leave a tick equal; the byte that association_set leaves unwritten is
\* whatever the stack holds at each of the two calls.
NextTwin ==
    \/ \E e \in Examples :
          \E r \in {kf_pool_add_example(pool, e[1], e[2])} :
             /\ pool' = r.pool
             /\ twin' = kf_pool_add_example(twin, e[1], e[2]).pool
             /\ plast' = PoolCall("add_example", r.ret, e)
             /\ UNCHANGED <<pcalls, ledgerVars, appVars>>
    \/ /\ pcalls.teaches > 0
       /\ \E question \in Questions, answer \in Answers :
            \E r \in kf_pool_add_association(pool, question, answer),
               t \in kf_pool_add_association(twin, question, answer) :
               /\ pool' = r.pool
               /\ twin' = t.pool
               /\ plast' = PoolCall("add_association", r.ret, <<question, answer>>)
       /\ pcalls' = [pcalls EXCEPT !.teaches = @ - 1]
       /\ UNCHANGED <<ledgerVars, appVars>>
    \/ /\ pcalls.ticks > 0
       /\ \E generations \in TickGenerations :
            /\ pool' \in kf_pool_tick(pool, generations)
            /\ twin' \in IF twin = pool THEN {pool'} ELSE kf_pool_tick(twin, generations)
            /\ plast' = PoolCall("tick", 0, <<>>)
       /\ pcalls' = [pcalls EXCEPT !.ticks = @ - 1]
       /\ UNCHANGED <<ledgerVars, appVars>>
    \/ /\ pcalls.feedbacks > 0
       /\ \E gene \in FeedbackGenes, delta \in Deltas :
            \E r \in {kf_pool_feedback(pool, gene, delta)} :
               /\ pool' = r.pool
               /\ twin' = kf_pool_feedback(twin, gene, delta).pool
               /\ plast' = PoolCall("feedback", r.ret, <<gene, delta>>)
       /\ pcalls' = [pcalls EXCEPT !.feedbacks = @ - 1]
       /\ UNCHANGED <<ledgerVars, appVars>>

SpecTwin == PoolRun(TwinTicks, TwinFeedbacks, TwinTeaches) /\ [][NextTwin]_vars

(***************************************************************************)
(* Functions that keep no state, each applied to arguments of its domain.  *)
(***************************************************************************)
\* The buffers a message is encoded into, the node identifiers and the formulas
\* sent: genes of every length the digits array holds, and the bytes of the
\* doubles 0.875 and 0.0 and of a double whose bytes all differ.
CodecBytes == 3        \* bytes of a sequence given to kolibri_transducirovat_utf8
ReproducePool == 9     \* formulas of the largest pool given to reproduce
\* values of the digits of a stream given to kolibri_izluchit_utf8: a uint8_t
\* each, so 12 is one of them
StoredDigits == {0, 3, 4, 12}
\* digits that follow the header of a number in a stream that another program
\* wrote: the greatest magnitudes of either sign and the next ones, the
\* greatest an unsigned long long holds and the next one, a value that is not
\* a digit, a digit too many
ForeignMagnitudes ==
    {<<2, 0, 4, 7>>, <<2, 0, 4, 8>>, <<2, 0, 4, 9>>, <<4, 0, 9, 5>>, <<4, 0, 9, 6>>,
     <<9, 9, 9, 9>>, <<0, 0, 0, 0>>, <<1, 12, 0, 0>>, <<0, 0, 0, 7, 5>>}
WireBuffers == {0, 2, 6, 7, 16, KOLIBRI_MAX_PAYLOAD}
NodeIds == {0, 42, 16909060}
WireFormulas ==
    {[gene |-> [i \in 1..length |-> (first + i) % 10], fitness |-> fitness] :
        length \in 0..GeneDigits, first \in {0, 7},
        fitness \in {<<0, 0, 0, 0, 0, 0, 236, 63>>, <<0, 0, 0, 0, 0, 0, 0, 0>>,
                      <<1, 2, 3, 4, 5, 6, 7, 8>>}}

\* A run makes one call: no call depends on the calls before it.
\* reproduce on a pool as qsort leaves it, of each of three capacities:
\* fitness falls with the rank, with ties, and formulas carry feedback and the
\* associations an earlier tick gave them.
\* formula_predict_numeric on genes of every operation digit with slopes up
\* to 59, for which slope * input + bias stays inside a long long of the
\* model as it does inside one of 64 bits for every gene, and inputs up to
\* the ends of the range of int.
\* kf_pool_tick for no generation and for one, on a pool as kf_pool_init
\* leaves it, with two examples, with a formula rated, with an association.
\* kf_formula_apply on a formula that may come from another node: a gene of
\* any length up to the digits array, an association table of up to two
\* entries in which an input hash may occur twice
NextCalls ==
    /\ call.op = "none"
    /\ UNCHANGED <<ledgerVars, poolVars, net, runtime>>
    /\ \/ \E seed \in Seeds, slot \in 1..PoolFormulas, length \in 0..GeneDigits,
             table \in SeqsOfLen(UNION {association_set(q, a) : q \in {<<81>>, <<82>>},
                                                                a \in Answers}, 0, 2),
             input \in {kf_hash_from_text(<<81>>), kf_hash_from_text(<<83>>), 1} :
             \E formula \in {[Formula(SubSeq(kf_pool_init(seed).formulas[slot].gene,
                                             1, length))
                                EXCEPT !.associations = table,
                                       !.association_count = Len(table)]} :
                call' = [op |-> "kf_formula_apply", arg |-> <<formula, input>>,
                         ret |-> kf_formula_apply(formula, input)]
       \/ \E buffer_len \in WireBuffers, node_id \in NodeIds :
             LET buffer == kn_message_encode_hello(buffer_len, node_id)
             IN call' = [op |-> "kn_message_encode_hello", arg |-> <<buffer_len, node_id>>,
                         ret |-> [buffer |-> buffer, decoded |-> kn_message_decode(buffer)]]
       \/ \E buffer_len \in WireBuffers, status \in {0, 90, 255} :
             LET buffer == kn_message_encode_ack(buffer_len, status)
             IN call' = [op |-> "kn_message_encode_ack", arg |-> <<buffer_len, status>>,
                         ret |-> [buffer |-> buffer, decoded |-> kn_message_decode(buffer)]]
       \/ \E buffer_len \in WireBuffers, node_id \in NodeIds, formula \in WireFormulas :
             LET buffer == kn_message_encode_formula(buffer_len, node_id, formula)
             IN call' = [op |-> "kn_message_encode_formula",
                         arg |-> <<buffer_len, node_id, formula>>,
                         ret |-> [buffer |-> buffer, decoded |-> kn_message_decode(buffer)]]
       \/ \E type \in 0..4, declared \in 0..(GeneDigits + 16),
                length \in {0, 1, 2, GeneDigits, GeneDigits + 1},
                formula \in WireFormulas, extra \in {<<>>, <<7>>}, cut \in 0..1 :
             LET whole == <<type>> \o hton(declared, 2) \o hton(42, 4) \o <<length>>
                              \o formula.gene \o kolibri_htonll(formula.fitness) \o extra
                 buffer == SubSeq(whole, 1, Len(whole) - cut * (Len(whole) - 2))
             IN call' = [op |-> "kn_message_decode", arg |-> <<buffer>>,
                         ret |-> kn_message_decode(buffer)]
       \/ \E first \in 0..255, rest \in SeqsOfLen({0, 9, 200, 255}, 0, CodecBytes - 1),
                length \in 0..CodecBytes :
             LET bajty == SubSeq(<<first>> \o rest, 1, length)
                 cifry == kolibri_transducirovat_utf8(bajty)
             IN /\ length <= 1 + Len(rest)
                /\ call' = [op |-> "kolibri_transducirovat_utf8", arg |-> <<bajty>>,
                            ret |-> [cifry |-> cifry, izluchit |-> kolibri_izluchit_utf8(cifry)]]
       \/ \E znachenie \in (-LLONG_MAX - 1)..LLONG_MAX, before \in {<<>>, <<7>>, <<-LLONG_MAX - 1>>},
                emkost \in {3, 10, 2 * (3 + kolibri_podschitat_cifry(LLONG_MAX))} :
             LET empty == [cifry |-> <<>>, emkost |-> emkost, poziciya |-> 0]
                 held == IF before = <<>> THEN empty
                         ELSE kolibri_potok_cifr_zapisat_chislo(empty, before[1]).potok
                 written == kolibri_potok_cifr_zapisat_chislo(held, znachenie)
                 skipped == IF before = <<>> \/ held = empty THEN written.potok
                            ELSE kolibri_potok_cifr_schitat_chislo(written.potok).potok
             IN call' = [op |-> "kolibri_potok_cifr_zapisat_chislo",
                         arg |-> <<held, znachenie>>,
                         ret |-> [written |-> written,
                                  read |-> kolibri_potok_cifr_schitat_chislo(skipped)]]
       \/ \E desyatki \in {0, 1, 10}, edinicy \in {0, 1, 3, 4, 5, 10}, znak \in 0..2,
                modul \in ForeignMagnitudes, dlina \in 0..8,
                before \in {<<>>, <<0, 1, 0, 7>>}, exhausted \in BOOLEAN :
             LET whole == before \o SubSeq(<<desyatki, edinicy, znak>> \o modul, 1, dlina)
                 potok == [cifry |-> whole, emkost |-> 12,
                           poziciya |-> IF exhausted THEN Len(whole) ELSE Len(before)]
             IN /\ dlina <= 3 + Len(modul)
                /\ call' = [op |-> "kolibri_potok_cifr_schitat_chislo", arg |-> <<potok>>,
                            ret |-> kolibri_potok_cifr_schitat_chislo(potok)]
       \/ \E seed \in 1..20, count \in {PoolFormulas, 6, ReproducePool} :
             LET rng == k_rng_seed(seed)
                 taught == CHOOSE a \in association_set(<<81>>, <<65>>) : TRUE
                 sorted == [i \in 1..count |->
                              [gene |-> gene_randomize(k_rng_skip(rng, (i - 1) * GeneDigits),
                                                       GeneDigits).gene,
                               fitness |-> Dbl(FitOne - 100 * (i \div 2)),
                               feedback |-> IF i % 2 = 1 THEN 300 ELSE -800,
                               associations |-> IF i % 3 = 1 THEN <<taught>> ELSE <<>>,
                               association_count |-> IF i % 3 = 1 THEN 1 ELSE 0]]
                 pool_ == [kf_pool_init(seed) EXCEPT
                             !.formulas = sorted, !.count = count,
                             !.rng = k_rng_skip(rng, count * GeneDigits)]
             IN call' = [op |-> "reproduce", arg |-> <<pool_>>, ret |-> reproduce(pool_)]
       \/ \E seed \in 1..5, taught \in 0..3, generations \in TickGenerations :
             LET fresh == kf_pool_init(seed)
                 examples == kf_pool_add_example(kf_pool_add_example(fresh, 0, 1).pool,
                                                 1, 3).pool
                 rated == kf_pool_feedback(examples, examples.formulas[2].gene, 700).pool
                 told == (CHOOSE r \in kf_pool_add_association(fresh, <<81>>, <<65>>) :
                             TRUE).pool
                 pool_ == <<fresh, examples, rated, told>>[taught + 1]
             IN \E after \in kf_pool_tick(pool_, generations) :
                   call' = [op |-> "kf_pool_tick", arg |-> <<pool_, generations>>,
                            ret |-> after]
       \/ \E operation \in 0..7, signs \in [1..3 -> {0, 1}],
                slope \in {<<0, 0>>, <<0, 1>>, <<0, 2>>, <<0, 3>>, <<5, 9>>},
                bias \in {<<0, 0>>, <<9, 9>>}, auxiliary \in {<<0, 0>>, <<0, 7>>},
                input \in {-INT_MAX - 1, -1, 0, 1, 5, 27, INT_MAX}
                             \cup {kf_hash_from_text(q) : q \in Questions} :
             LET gene == <<operation, signs[1]>> \o slope \o <<signs[2]>> \o bias
                            \o <<signs[3]>> \o auxiliary \o <<0>>
             IN call' = [op |-> "formula_predict_numeric", arg |-> <<gene, input>>,
                         ret |-> formula_predict_numeric(gene, input)]
       \/ \E cifry \in SeqsOfLen(StoredDigits, 0, 3), other \in SeqsOfLen(StoredDigits, 3, 3) :
             call' = [op |-> "kolibri_izluchit_utf8", arg |-> <<cifry, other>>,
                      ret |-> <<kg_block_event_text([event_digits |-> cifry]),
                                kolibri_izluchit_utf8(other)>>]

SpecCalls == Init /\ [][NextCalls]_vars

(***************************************************************************)
(* The listener and its peer.                                              *)
(***************************************************************************)
\* what a peer of its own writes: a HELLO, an ACK, a MIGRATE_RULE, a
\* MIGRATE_RULE with a byte after the fitness, a HELLO of five payload bytes,
\* a frame of an unknown type, a header that declares 257 bytes, the first two
\* bytes of a header
PeerFrames ==
    {kn_message_encode_hello(7, 42), kn_message_encode_ack(4, 90),
     kn_message_encode_formula(32, 42, [gene |-> <<3, 4>>,
                                        fitness |-> <<0, 0, 0, 0, 0, 0, 236, 63>>]),
     <<2, 0, 14, 0, 0, 0, 42, 0, 1, 0, 0, 0, 0, 0, 0, 0, 9>>,
     <<1, 0, 5, 0, 0, 0, 42, 0>>, <<4, 0, 0>>, <<1, 1, 1>>, <<1, 0>>}

KnListenerPoll ==
    /\ net.poll.pc # "returned"
    /\ net' = kn_listener_poll(net)
    /\ UNCHANGED <<ledgerVars, poolVars, call, runtime>>

\* kn_share_formula from SSL_connect to its return
KnShareFormula ==
    /\ net.peer.pc = "open" /\ net.peer.kind = "share"
    /\ \E r \in {kn_share_formula(net.peer.node_id, net.peer.formula)} :
          net' = [net EXCEPT !.peer.pc = "closed", !.peer.sent = r.sent,
                             !.peer.result = r.result,
                             !.wire = IF Len(r.sent) = 2 THEN r.sent[1] \o r.sent[2]
                                      ELSE IF Len(r.sent) = 1 THEN r.sent[1] ELSE <<>>]
    /\ UNCHANGED <<ledgerVars, poolVars, call, runtime>>

NextNet ==
    \/ KnListenerPoll
    \/ /\ net.peer.pc = "idle"
       /\ \E node_id \in NodeIds, formula \in WireFormulas :
             /\ Len(formula.gene) \in {0, 1, GeneDigits}
             /\ net' = [net EXCEPT !.peer = [@ EXCEPT !.pc = "connecting", !.kind = "share",
                                                      !.node_id = node_id,
                                                      !.formula = formula]]
       /\ UNCHANGED <<ledgerVars, poolVars, call, runtime>>
    \/ KnShareFormula
    \/ /\ net.peer.pc = "idle"
       /\ net' = [net EXCEPT !.peer.pc = "connecting", !.peer.kind = "own"]
       /\ UNCHANGED <<ledgerVars, poolVars, call, runtime>>
    \/ /\ net.peer.pc = "open" /\ net.peer.kind = "own"
       /\ Len(net.peer.sent) < MaxFrames
       /\ \E frame \in PeerFrames :
             net' = [net EXCEPT !.peer.sent = Append(@, frame), !.wire = @ \o frame]
       /\ UNCHANGED <<ledgerVars, poolVars, call, runtime>>
    \/ /\ net.peer.pc = "open" /\ net.peer.kind = "own"
       /\ net' = [net EXCEPT !.peer.pc = "closed"]
       /\ UNCHANGED <<ledgerVars, poolVars, call, runtime>>

SpecNet == Init /\ [][NextNet]_vars

\* kn_listener_poll and kn_share_formula run on: neither is kept from its next
\* step for ever.  Nothing is asked of a peer of its own.
SpecNetFair ==
    Init /\ [][NextNet]_vars /\ WF_vars(KnListenerPoll) /\ WF_vars(KnShareFormula)

(***************************************************************************)
(* The runtime: started once on a path that holds no ledger, then taught,  *)
(* evolved, asked and given feedback.  done lists the calls that returned  *)
(* 0 and did what they are for; op and ret are the last call and what it   *)
(* returned.                                                               *)
(***************************************************************************)
\* what a call leaves behind once its event went to kolibri_runtime_record_event
Recorded(r, e, name) ==
    /\ genome' = e.kontekst
    /\ fileData' = fileData \o e.zapis
    /\ runtime' = [r EXCEPT !.done = Append(@, name),
                            !.lost = IF e.ret # 0 THEN 1 ELSE @]

\* kolibri_runtime_start with kolibri_runtime_open_genome
KolibriRuntimeStart ==
    /\ ~runtime.started
    /\ \E seed \in Seeds, verify_genome \in BOOLEAN, vremya \in Timestamps, fault \in Faults :
          LET status == IF verify_genome
                        THEN kg_verify_file(fileExists, fileData, KOLIBRI_HMAC_KEY)
                        ELSE [ret |-> 0, exists |-> fileExists, data |-> fileData]
              opened == kg_open(genome, status.exists, status.data, KOLIBRI_HMAC_KEY)
              boot == kolibri_runtime_record_event(TRUE, opened.kontekst, RuntimeEvent.BOOT,
                                                   <<TextByte>>, vremya, fault)
              r == [kolibri_runtime_reset_last_answer(runtime)
                       EXCEPT !.started = TRUE, !.op = "start", !.ret = -1]
          IN /\ pool' = kf_pool_init(seed)
             /\ IF status.ret \notin {0, 1}
                THEN /\ fileExists' = status.exists
                     /\ fileData' = status.data
                     /\ runtime' = r
                     /\ UNCHANGED genome
                ELSE IF opened.ret # 0
                THEN /\ fileExists' = opened.exists
                     /\ fileData' = opened.data
                     /\ genome' = opened.kontekst
                     /\ runtime' = r
                ELSE /\ fileExists' = opened.exists
                     /\ fileData' = opened.data \o boot.zapis
                     /\ genome' = boot.kontekst
                     /\ runtime' = [r EXCEPT !.genome_ready = TRUE, !.done = <<"boot">>,
                                             !.lost = IF boot.ret # 0 THEN 1 ELSE 0,
                                             !.ret = 0]
    /\ UNCHANGED <<last, appended, tampered, plast, pcalls, twin, call, net>>

KolibriRuntimeAddExample ==
    /\ runtime.started /\ runtime.left > 0
    /\ \E e \in Examples :
          \E r \in {kf_pool_add_example(pool, e[1], e[2])} :
             /\ pool' = r.pool
             /\ runtime' = [runtime EXCEPT !.left = @ - 1, !.op = "add_example",
                                           !.ret = r.ret,
                                           !.done = IF r.ret = 0 THEN Append(@, "teach") ELSE @]
    /\ UNCHANGED <<ledgerVars, plast, pcalls, twin, call, net>>

KolibriRuntimeTick ==
    /\ runtime.started /\ runtime.left > 0
    /\ \E generations \in TickGenerations, vremya \in Timestamps, fault \in Faults :
          IF generations = 0
          THEN /\ runtime' = [runtime EXCEPT !.left = @ - 1, !.op = "tick", !.ret = 0]
               /\ UNCHANGED <<pool, genome, fileData>>
          ELSE /\ pool' \in kf_pool_tick(pool, generations)
               /\ Recorded([kolibri_runtime_reset_last_answer(runtime)
                               EXCEPT !.left = @ - 1, !.op = "tick", !.ret = 0],
                           kolibri_runtime_record_event(runtime.genome_ready, genome,
                                                        RuntimeEvent.EVOLVE, <<TextByte>>,
                                                        vremya, fault),
                           "evolve")
    /\ UNCHANGED <<fileExists, last, appended, tampered, plast, pcalls, twin, call, net>>

KolibriRuntimeAsk ==
    /\ runtime.started /\ runtime.left > 0
    /\ \E question \in {0, 1}, vremya \in Timestamps, fault \in Faults :
          LET best == kf_pool_best(pool)
              applied == kf_formula_apply(best, question)
          IN IF applied.ret # 0
             THEN /\ runtime' = [runtime EXCEPT !.left = @ - 1, !.op = "ask", !.ret = -1]
                  /\ UNCHANGED <<genome, fileData>>
             ELSE Recorded([runtime EXCEPT !.left = @ - 1, !.op = "ask", !.ret = 0,
                                           !.last_gene = best.gene,
                                           !.last_gene_valid = TRUE,
                                           !.last_question = question,
                                           !.last_answer = applied.output],
                           kolibri_runtime_record_event(runtime.genome_ready, genome,
                                                        RuntimeEvent.ASK, <<TextByte>>,
                                                        vremya, fault),
                           "ask")
    /\ UNCHANGED <<pool, fileExists, last, appended, tampered, plast, pcalls, twin, call, net>>

KolibriRuntimeFeedback ==
    /\ runtime.started /\ runtime.left > 0
    /\ \E delta \in Deltas, vremya \in Timestamps, fault \in Faults :
          LET r == kf_pool_feedback(pool, runtime.last_gene, delta)
          IN IF ~runtime.last_gene_valid
             THEN /\ runtime' = [runtime EXCEPT !.left = @ - 1, !.op = "feedback", !.ret = 1]
                  /\ UNCHANGED <<pool, genome, fileData>>
             ELSE IF r.ret # 0
             THEN /\ runtime' = [kolibri_runtime_reset_last_answer(runtime)
                                    EXCEPT !.left = @ - 1, !.op = "feedback", !.ret = -1]
                  /\ UNCHANGED <<pool, genome, fileData>>
             ELSE /\ pool' = r.pool
                  /\ Recorded([runtime EXCEPT !.left = @ - 1, !.op = "feedback", !.ret = 0],
                              kolibri_runtime_record_event(runtime.genome_ready, genome,
                                                           RuntimeEvent.USER_FEEDBACK,
                                                           <<TextByte>>, vremya, fault),
                              "feedback")
    /\ UNCHANGED <<fileExists, last, appended, tampered, plast, pcalls, twin, call, net>>

NextRuntime ==
    \/ KolibriRuntimeStart
    \/ KolibriRuntimeAddExample
    \/ KolibriRuntimeTick
    \/ KolibriRuntimeAsk
    \/ KolibriRuntimeFeedback

SpecRuntime == Init /\ [][NextRuntime]_vars

(***************************************************************************)
(* Reading a ledger file as text, for stating the properties               *)
(***************************************************************************)
RECURSIVE SplitOn(_, _)
SplitOn(s, c) ==
    LET at == {i \in 1..Len(s) : s[i] = c}
    IN IF at = {} THEN <<s>>
       ELSE <<SubSeq(s, 1, Min(at) - 1)>> \o SplitOn(SubSeq(s, Min(at) + 1, Len(s)), c)

\* the comma-separated fields of every newline-terminated line
FileRecords(data) ==
    LET pieces == SplitOn(data, "\n")
    IN [i \in 1..(Len(pieces) - 1) |-> SplitOn(pieces[i], ",")]

\* the 1-based line that holds byte pos
LineOfByte(data, pos) == 1 + Cardinality({i \in 1..(pos - 1) : data[i] = "\n"})

\* the tag stored in a line, as razobrat_stroku reads it
StoredTag(stroka) == preobrazovat_hex_v_bajty(ScanRecord(stroka).hmac_hex, KOLIBRI_HASH_SIZE).bytes

\* line i passes validation given that the lines before it did
LineValid(lines, i, klyuch) ==
    razobrat_stroku(lines[i], IF i = 1 THEN ZeroHash ELSE StoredTag(lines[i - 1]), i - 1, klyuch).ok

\* lines that are the first to fail validation (at most one)
FirstInvalid(lines, klyuch) ==
    {i \in 1..Len(lines) : ~LineValid(lines, i, klyuch)
                           /\ \A j \in 1..(i - 1) : LineValid(lines, j, klyuch)}

BlockOfLine(lines, i, klyuch) ==
    razobrat_stroku(lines[i], IF i = 1 THEN ZeroHash ELSE StoredTag(lines[i - 1]), i - 1, klyuch).blok

(***************************************************************************)
(* Claims about the ledger                                                 *)
(***************************************************************************)
\* C1: in a ledger written only by kg_append on an initially empty file the
\* records carry indices 0,1,2,... without gaps, the first prev_hash is all
\* zero and every later prev_hash is the tag of the record before it.
C1_ChainOrdering ==
    fileExists =>
        LET recs == FileRecords(fileData)
        IN \A i \in 1..Len(recs) :
            /\ recs[i][1] = FormatUll(i - 1)
            /\ recs[i][3] = IF i = 1 THEN preobrazovat_v_hex(ZeroHash) ELSE recs[i - 1][4]

\* C2: a failed kg_append leaves next_index and the chain tip as they were
\* and writes no record.
C2_AppendFailureKeepsState ==
    (last.op = "append" /\ last.ret = -1) =>
        /\ genome.next_index = last.genome0.next_index
        /\ genome.last_hash = last.genome0.last_hash
        /\ fileData = last.data0

\* C3: whatever was opened, appended and closed under one key, the file
\* verifies Ok under that key and replay visits exactly the appended records,
\* in index order, with the appended event and payload texts.
C3_Lifecycle ==
    \A klyuch \in Keys :
        (fileExists /\ \A i \in 1..Len(appended) : appended[i].klyuch = klyuch) =>
            /\ kg_verify_file(fileExists, fileData, klyuch).ret = 0
            /\ \A r \in {kg_replay(fileExists, fileData, klyuch, {})} :
                  /\ r.ret = 0
                  /\ Len(r.visited) = Len(appended)
                  /\ \A i \in 1..Len(r.visited) :
                        /\ r.visited[i].index = i - 1
                        /\ kg_block_event_text(r.visited[i]).bytes = appended[i].event
                        /\ kg_block_payload_text(r.visited[i]).bytes = appended[i].payload

\* C4: replacing one byte of a file that verifies Ok under a key makes
\* kg_verify_file report Corrupt and makes kg_replay report Corrupt without
\* visiting the record that holds the changed byte or any later one.
C4_TamperDetected ==
    last.op = "tamper" =>
        \A klyuch \in Keys :
            kg_verify_file(last.exists0, last.data0, klyuch).ret = 0 =>
                /\ kg_verify_file(fileExists, fileData, klyuch).ret = -1
                /\ \A r \in {kg_replay(fileExists, fileData, klyuch, {})} :
                      /\ r.ret = -1
                      /\ Len(r.visited) < LineOfByte(last.data0, last.arg)

\* C5 as stated: kg_replay hands the visitor every record before the first
\* invalid one, in file order, none from the first invalid one on, and
\* returns Corrupt.
C5_ReplayStopsAtFirstInvalid ==
    (last.op = "replay" /\ last.exists0) =>
        LET lines == fgets(last.data0)
        IN \A bad \in FirstInvalid(lines, last.klyuch) :
            /\ last.ret = -1
            /\ Len(last.visited) = bad - 1
            /\ \A j \in 1..Len(last.visited) :
                  last.visited[j] = BlockOfLine(lines, j, last.klyuch)

\* C5 amended: the same as long as the visitor returns 0 for the records
\* before the first invalid one; a visitor that returns non-zero for one of
\* them ends the replay at that record, which is the last one visited, and
\* kg_replay returns the failure code as well.
C5_ReplayStopsAtFirstInvalidOrVisitor ==
    (last.op = "replay" /\ last.exists0) =>
        LET lines == fgets(last.data0)
        IN \A bad \in FirstInvalid(lines, last.klyuch) :
            LET rejected == {j \in 1..(bad - 1) : (j - 1) \in last.arg}
                stop == IF rejected = {} THEN bad - 1 ELSE Min(rejected)
            IN /\ last.ret = -1
               /\ Len(last.visited) = stop
               /\ \A j \in 1..Len(last.visited) :
                     last.visited[j] = BlockOfLine(lines, j, last.klyuch)

\* a replay of a file whose third line is the first invalid one, with a
\* visitor that accepts everything: exactly the first two records were visited
C5_Witness ==
    /\ last.op = "replay" /\ last.exists0 /\ last.arg = {}
    /\ 3 \in FirstInvalid(fgets(last.data0), last.klyuch)
    /\ Len(last.visited) = 2 /\ last.ret = -1

\* C6: kg_open on a file with an invalid record fails, leaves the file byte
\* for byte as it was and the context closed and zeroed, so that kg_append
\* on it fails.
C6_OpenFailureLeavesClosed ==
    (last.op = "open" /\ last.exists0
       /\ FirstInvalid(fgets(last.data0), last.klyuch) # {}) =>
        /\ last.ret = -1
        /\ fileExists /\ fileData = last.data0
        /\ ~genome.file /\ genome.next_index = 0 /\ genome.last_hash = ZeroHash
        /\ \A ev \in EventTexts, pl \in PayloadTexts, ts \in Timestamps :
              LET r == kg_append(genome, ev, pl, ts, "none")
              IN r.ret = -1 /\ r.zapis = <<>>

\* a failed kg_open of a file that holds an invalid record
C6_Witness ==
    /\ last.op = "open" /\ last.ret = -1 /\ last.exists0 /\ last.data0 # <<>>
    /\ FirstInvalid(fgets(last.data0), last.klyuch) # {}

\* C7: after a successful kg_open of a file with n records next_index is n
\* and the chain tip is the tag of the last record (zero for an empty file),
\* and a kg_append that follows writes index n with that tag as prev_hash.
C7_OpenRestoresTip ==
    (last.op = "open" /\ last.ret = 0) =>
        LET recs == FileRecords(fileData)
            n == Len(recs)
            tip == IF n = 0 THEN preobrazovat_v_hex(ZeroHash) ELSE recs[n][4]
        IN /\ genome.next_index = n
           /\ preobrazovat_v_hex(genome.last_hash) = tip
           /\ \A ev \in EventTexts, pl \in PayloadTexts, ts \in Timestamps :
                 LET r == kg_append(genome, ev, pl, ts, "none")
                 IN r.ret = 0 =>
                      /\ r.blok.index = n
                      /\ preobrazovat_v_hex(r.blok.prev_hash) = tip
                      /\ FileRecords(r.zapis)[1][1] = FormatUll(n)
                      /\ FileRecords(r.zapis)[1][3] = tip

\* a successful reopen of a file that already holds a record
C7_Witness ==
    last.op = "open" /\ last.ret = 0 /\ Len(FileRecords(fileData)) >= 1

\* C8: kg_verify_file and kg_replay return Missing for a path that does not
\* exist and never create or change the file.
C8_VerifyReplayReadOnly ==
    last.op \in {"verify", "replay"} =>
        /\ fileExists = last.exists0
        /\ fileData = last.data0
        /\ (~last.exists0 => last.ret = 1)

\* a verify of a missing path
C8_Witness ==
    last.op = "verify" /\ ~last.exists0 /\ last.ret = 1 /\ ~fileExists

\* C9: kg_close is idempotent and zeroes the context; kg_append on a closed
\* context fails and writes nothing.
C9_CloseIdempotent ==
    /\ kg_close(kg_close(genome)) = kg_close(genome)
    /\ last.op = "close" =>
          /\ ~genome.file /\ genome.hmac_key = <<>> /\ genome.hmac_key_len = 0
          /\ genome.last_hash = ZeroHash /\ genome.next_index = 0
          /\ (~last.genome0.file /\ last.genome0.hmac_key = <<>> => genome = last.genome0)
    /\ (last.op = "append" /\ ~last.genome0.file) =>
          last.ret = -1 /\ fileData = last.data0 /\ genome = last.genome0

\* a second kg_close in a row, after the ledger had been opened and appended to
C9_Witness ==
    last.op = "close" /\ ~last.genome0.file /\ fileData # <<>>

(***************************************************************************)
(* C10: immediately after every kf_pool_tick and every successful          *)
(* kf_pool_feedback the formulas are in non-increasing fitness order, the  *)
(* fitness order a full re-sort gives.                                     *)
(***************************************************************************)
FitnessOrder(formulas) == [i \in 1..Len(formulas) |-> formulas[i].fitness]

C10_PoolSortedAfterTickAndFeedback ==
    (plast.op \in {"tick", "feedback"} /\ plast.ret = 0)
        => /\ \A i \in 1..(pool.count - 1) :
                  ~DblLess(pool.formulas[i].fitness, pool.formulas[i + 1].fitness)
           /\ \A sorted \in qsort(pool.formulas) :
                  FitnessOrder(sorted) = FitnessOrder(pool.formulas)

\* after a tick over taught examples, formulas were rated up and another was
\* then rated down: the last feedback moved its formula from slot i to a later
\* slot j, past a formula of positive fitness
C10_Witness ==
    /\ plast.op = "feedback" /\ plast.ret = 0
    /\ pcalls.ticks < MaxTicks /\ pool.examples > 0
    /\ \E i, j \in 1..pool.count :
          /\ i < j
          /\ pool.formulas[j].gene = plast.pool0.formulas[i].gene
          /\ DblLess(pool.formulas[j].fitness, plast.pool0.formulas[i].fitness)
          /\ pool.formulas[j].feedback < 0
          /\ DblLess(Dbl(0), pool.formulas[i].fitness)
          /\ \E k \in 1..pool.count :
                /\ pool.formulas[k].gene # pool.formulas[j].gene
                /\ pool.formulas[k].feedback > 0

(***************************************************************************)
(* C11: in every state reached through kf_pool_init, kf_pool_add_example,  *)
(* kf_pool_tick and kf_pool_feedback the fitness of every formula lies     *)
(* within [0, 1].                                                          *)
(***************************************************************************)
C11_FitnessWithinUnit ==
    \A i \in 1..pool.count :
        /\ ~DblLess(pool.formulas[i].fitness, Dbl(0))
        /\ ~DblLess(Dbl(FitOne), pool.formulas[i].fitness)

(***************************************************************************)
(* C12: the feedback accumulator of every formula lies within [-1, 1], and *)
(* a successful kf_pool_feedback adds delta to the accumulator of the      *)
(* first formula carrying the gene, saturating at -1 and 1, and leaves     *)
(* every other formula as it was.                                          *)
(***************************************************************************)
C12_FeedbackAccumulatorSaturates ==
    /\ \A i \in 1..pool.count :
          pool.formulas[i].feedback >= -FitOne /\ pool.formulas[i].feedback <= FitOne
    /\ (plast.op = "feedback" /\ plast.ret = 0) =>
          LET before == plast.pool0.formulas
              i0 == Min({i \in 1..Len(before) : before[i].gene = plast.arg[1]})
              sum == before[i0].feedback + plast.arg[2]
              Without(formulas, i) ==
                  SubSeq(formulas, 1, i - 1) \o SubSeq(formulas, i + 1, Len(formulas))
          IN \E j \in 1..pool.count :
                /\ pool.formulas[j].gene = plast.arg[1]
                /\ pool.formulas[j].feedback =
                      (IF sum > FitOne THEN FitOne ELSE IF sum < -FitOne THEN -FitOne ELSE sum)
                /\ Without(pool.formulas, j) = Without(before, i0)

\* a positive rating that the accumulator could not hold: it stops at 1
C12_Witness ==
    /\ plast.op = "feedback" /\ plast.ret = 0 /\ plast.arg[2] > 0
    /\ \E i \in 1..pool.count :
          /\ plast.pool0.formulas[i].gene = plast.arg[1]
          /\ plast.pool0.formulas[i].feedback + plast.arg[2] > FitOne
          /\ \A k \in 1..(i - 1) : plast.pool0.formulas[k].gene # plast.arg[1]
    /\ \E j \in 1..pool.count :
          pool.formulas[j].gene = plast.arg[1] /\ pool.formulas[j].feedback = FitOne

(***************************************************************************)
(* C13: kf_pool_feedback fails exactly when no formula of the pool carries *)
(* a gene of the same length and the same digits as the given one, and a   *)
(* failed call leaves the pool as it was.                                  *)
(***************************************************************************)
C13_FeedbackNotFound ==
    plast.op = "feedback" =>
        /\ plast.ret = -1 <=>
              ~\E i \in 1..plast.pool0.count :
                  /\ Len(plast.pool0.formulas[i].gene) = Len(plast.arg[1])
                  /\ \A d \in 1..Len(plast.arg[1]) :
                        plast.pool0.formulas[i].gene[d] = plast.arg[1][d]
        /\ plast.ret = -1 => pool = plast.pool0
        /\ plast.ret \in {-1, 0}

\* after a tick over taught examples, a rating names the digits of the best
\* gene but for the last one: no formula is found
C13_Witness ==
    /\ plast.op = "feedback" /\ plast.ret = -1
    /\ pcalls.ticks < MaxTicks /\ pool.examples > 0
    /\ Len(plast.arg[1]) < GeneDigits
    /\ \A d \in 1..Len(plast.arg[1]) : pool.formulas[1].gene[d] = plast.arg[1][d]

(***************************************************************************)
(* C14: whatever operations follow kf_pool_init, the pool keeps its full   *)
(* count of formulas, holds no more examples and no more associations than *)
(* its buffers have room for, and no formula holds more associations than  *)
(* its own table has room for.                                             *)
(***************************************************************************)
C14_CapacitiesRespected ==
    /\ pool.count = PoolFormulas /\ Len(pool.formulas) = PoolFormulas
    /\ pool.examples <= PoolExamples
    /\ Len(pool.inputs) = pool.examples /\ Len(pool.targets) = pool.examples
    /\ pool.association_count <= KOLIBRI_POOL_MAX_ASSOCIATIONS
    /\ Len(pool.associations) = pool.association_count
    /\ \A i \in 1..pool.count :
          /\ pool.formulas[i].association_count <= KOLIBRI_FORMULA_MAX_ASSOCIATIONS
          /\ Len(pool.formulas[i].associations) = pool.formulas[i].association_count

\* a tick over a full association table and a full example buffer, after an
\* association was taught that found both full: the best formula holds as
\* many associations as a formula can, fewer than the pool
C14_Witness ==
    /\ plast.op = "tick"
    /\ pool.examples = PoolExamples
    /\ pool.association_count = KOLIBRI_POOL_MAX_ASSOCIATIONS
    /\ pcalls.teaches = 0
    /\ pool.formulas[1].association_count = KOLIBRI_FORMULA_MAX_ASSOCIATIONS
    /\ pool.formulas[1].association_count < pool.association_count

(***************************************************************************)
(* C15: kf_pool_add_example appends the pair at the end of the example     *)
(* buffer and succeeds while the buffer has room; on a full buffer it      *)
(* fails and changes nothing; kf_pool_clear_examples empties the buffer,   *)
(* so that the next example is accepted.                                   *)
(***************************************************************************)
C15_ExampleBufferFull ==
    /\ plast.op = "add_example" =>
          IF plast.pool0.examples < PoolExamples
          THEN /\ plast.ret = 0
               /\ pool = [plast.pool0 EXCEPT
                            !.inputs = Append(plast.pool0.inputs, plast.arg[1]),
                            !.targets = Append(plast.pool0.targets, plast.arg[2]),
                            !.examples = plast.pool0.examples + 1]
          ELSE plast.ret = -1 /\ pool = plast.pool0
    /\ plast.op = "clear_examples" =>
          /\ pool.examples = 0
          /\ \A e \in Examples : kf_pool_add_example(pool, e[1], e[2]).ret = 0

\* an example offered to a full buffer, after a tick has run
C15_Witness ==
    /\ plast.op = "add_example" /\ plast.ret = -1
    /\ plast.pool0.examples = PoolExamples
    /\ pcalls.ticks = 0

(***************************************************************************)
(* C16: kf_pool_add_association keeps one table entry for each question.   *)
(* A question that the table holds is overwritten where it stands and the  *)
(* count stays; a new question is appended; on a full table the first      *)
(* entry is dropped, the others move down one slot in their order and the  *)
(* new entry takes the last slot.                                          *)
(***************************************************************************)
C16_AssociationTable ==
    plast.op = "add_association" =>
        LET question == plast.arg[1]
            answer == plast.arg[2]
            before == plast.pool0.associations
            table == pool.associations
            taught(assoc) == assoc.question = question /\ assoc.answer = answer
            present == {i \in 1..Len(before) : before[i].question = question}
        IN /\ pool.association_count = Len(table)
           /\ \A i, j \in 1..Len(table) : table[i].question = table[j].question => i = j
           /\ IF present # {}
              THEN /\ Len(table) = Len(before)
                   /\ \A i \in 1..Len(table) :
                         IF i \in present THEN taught(table[i]) ELSE table[i] = before[i]
              ELSE IF Len(before) = KOLIBRI_POOL_MAX_ASSOCIATIONS
              THEN /\ Len(table) = KOLIBRI_POOL_MAX_ASSOCIATIONS
                   /\ \A i \in 1..(Len(table) - 1) : table[i] = before[i + 1]
                   /\ taught(table[Len(table)])
              ELSE /\ table = Append(before, table[Len(table)])
                   /\ taught(table[Len(table)])

(***************************************************************************)
(* C17: every kf_pool_add_association succeeds, whatever was taught        *)
(* before, and leaves the pair of the hash of the question and the hash of *)
(* the answer in the example buffer.                                       *)
(***************************************************************************)
C17_AssociationAlwaysAccepted ==
    plast.op = "add_association" =>
        /\ plast.ret = 0
        /\ \E i \in 1..pool.examples :
              /\ pool.inputs[i] = kf_hash_from_text(plast.arg[1])
              /\ pool.targets[i] = kf_hash_from_text(plast.arg[2])

(***************************************************************************)
(* C18: two pools initialised with the same seed and given the same        *)
(* sequence of kf_pool_add_example, kf_pool_add_association, kf_pool_tick  *)
(* and kf_pool_feedback calls are in the same state after every call, so   *)
(* their best genes are equal digit for digit.                             *)
(***************************************************************************)
C18_TwinPoolsIdentical ==
    /\ twin = pool
    /\ kf_pool_best(twin).gene = kf_pool_best(pool).gene

(***************************************************************************)
(* C19: with examples taught, no associations and no feedback given, the   *)
(* formula of kf_pool_best after a kf_pool_tick has a total absolute error *)
(* over the taught examples (the sum of |target - prediction|) that is     *)
(* not larger than that of the formula of kf_pool_best before the tick.    *)
(***************************************************************************)
C19_BestErrorNeverIncreases ==
    LET RECURSIVE error(_, _)
        error(formula, i) ==
            IF i > pool.examples THEN 0
            ELSE Abs(pool.targets[i] - kf_formula_apply(formula, pool.inputs[i]).output)
                 + error(formula, i + 1)
    IN (plast.op = "tick" /\ pcalls.feedbacks = MaxFeedbacks /\ pool.examples >= 1) =>
           error(kf_pool_best(pool), 1) <= error(kf_pool_best(plast.pool0), 1)

(***************************************************************************)
(* C20: after kf_pool_tick on a pool that holds associations, however many *)
(* the table has room for, the formula of kf_pool_best has the fitness of  *)
(* a perfect match and holds the whole table: applied to the hash of any   *)
(* question of the table it returns the hash of its answer.                *)
(***************************************************************************)
C20_BestHoldsAssociations ==
    (plast.op = "tick" /\ pool.association_count >= 1) =>
        /\ kf_pool_best(pool).fitness = Dbl(FitOne)
        /\ kf_pool_best(pool).associations = pool.associations
        /\ \A i \in 1..pool.association_count :
              \E r \in {kf_formula_apply(kf_pool_best(pool),
                                         kf_hash_from_text(pool.associations[i].question))} :
                 r.ret = 0 /\ r.output = kf_hash_from_text(pool.associations[i].answer)

(***************************************************************************)
(* C21: kf_formula_apply returns the output hash of the first association  *)
(* of the formula whose input hash equals the input, whatever the gene is  *)
(* (a gene too short to be evaluated included); only when no association   *)
(* matches does it return what the numeric rule of the gene gives.         *)
(***************************************************************************)
C21_AssociationTakesPrecedence ==
    call.op = "kf_formula_apply" =>
        LET formula == call.arg[1]
            matching == {i \in 1..formula.association_count :
                           formula.associations[i].input_hash = call.arg[2]}
            numeric == formula_predict_numeric(formula.gene, call.arg[2])
        IN IF matching # {}
           THEN /\ call.ret.ret = 0
                /\ call.ret.output = formula.associations[Min(matching)].output_hash
           ELSE /\ call.ret.ret = (IF numeric.ok THEN 0 ELSE -1)
                /\ numeric.ok => call.ret.output = numeric.output

\* two associations answer the input differently and the gene cannot be evaluated
C21_Witness ==
    /\ call.op = "kf_formula_apply"
    /\ call.arg[1].association_count = 2
    /\ call.arg[1].associations[1].input_hash = call.arg[2]
    /\ call.arg[1].associations[2].input_hash = call.arg[2]
    /\ call.arg[1].associations[1].output_hash # call.arg[1].associations[2].output_hash
    /\ ~formula_predict_numeric(call.arg[1].gene, call.arg[2]).ok
    /\ call.ret.ret = 0

(***************************************************************************)
(* C22: when no association matches, kf_formula_apply fails exactly when   *)
(* the gene is shorter than the ten digits the rule reads (operation at 0, *)
(* slope at 1..3, bias at 4..6, auxiliary at 7..9): a gene of ten digits   *)
(* or more is evaluated.                                                   *)
(***************************************************************************)
C22_FailsOnlyOnShortGene ==
    (/\ call.op = "kf_formula_apply"
     /\ \A i \in 1..call.arg[1].association_count :
           call.arg[1].associations[i].input_hash # call.arg[2])
        => (call.ret.ret # 0 <=> Len(call.arg[1].gene) < 10)


\* C23: encoding a message into a buffer that holds it and decoding the bytes
\* gives the message back: HELLO takes 7 bytes and returns the node id, ACK
\* takes 4 bytes and returns the status, MIGRATE_RULE with a gene of 1 up to
\* the digits array takes 3+4+1+length+8 bytes and returns the node id, the
\* gene length, the gene and the bytes of the fitness.
C23_EncodeDecodeIdentity ==
    LET buffer == call.ret.buffer
        decoded == call.ret.decoded
    IN /\ (call.op = "kn_message_encode_hello" /\ call.arg[1] >= 7) =>
             /\ Len(buffer) = 7
             /\ decoded = [ret |-> 0,
                           message |-> [type |-> KolibriNetMessageType.KOLIBRI_MSG_HELLO,
                                        node_id |-> call.arg[2]]]
       /\ (call.op = "kn_message_encode_ack" /\ call.arg[1] >= 4) =>
             /\ Len(buffer) = 4
             /\ decoded = [ret |-> 0,
                           message |-> [type |-> KolibriNetMessageType.KOLIBRI_MSG_ACK,
                                        status |-> call.arg[2]]]
       /\ (/\ call.op = "kn_message_encode_formula"
           /\ Len(call.arg[3].gene) \in 1..GeneDigits
           /\ call.arg[1] >= 3 + 4 + 1 + Len(call.arg[3].gene) + 8) =>
             /\ Len(buffer) = 3 + 4 + 1 + Len(call.arg[3].gene) + 8
             /\ decoded = [ret |-> 0,
                           message |-> [type |-> KolibriNetMessageType.KOLIBRI_MSG_MIGRATE_RULE,
                                        node_id |-> call.arg[2],
                                        length |-> Len(call.arg[3].gene),
                                        digits |-> call.arg[3].gene,
                                        fitness |-> call.arg[3].fitness]]

\* a gene that fills the digits array and the fitness 0.875 came back from the
\* bytes of a MIGRATE_RULE
C23_Witness ==
    /\ call.op = "kn_message_encode_formula"
    /\ Len(call.arg[3].gene) = GeneDigits
    /\ call.arg[2] = 16909060
    /\ call.arg[3].fitness = <<0, 0, 0, 0, 0, 0, 236, 63>>
    /\ Len(call.ret.buffer) = 16 + GeneDigits
    /\ SubSeq(call.ret.buffer, 4, 7) = <<1, 2, 3, 4>>
    /\ call.ret.decoded.ret = 0

\* C24: kn_message_decode succeeds only on a HELLO, MIGRATE_RULE or ACK whose
\* declared payload length is exactly the size of the layout of its type (4,
\* 4+1+gene length+8 with a gene length within the digits array, 1) and lies
\* within the buffer.
C24_DecodeOnlyExactLayouts ==
    (call.op = "kn_message_decode" /\ call.ret.ret = 0) =>
        LET buffer == call.arg[1]
            declared == ntoh(SubSeq(buffer, 2, 3))
        IN /\ Len(buffer) >= KOLIBRI_HEADER_SIZE + declared
           /\ \/ buffer[1] = KolibriNetMessageType.KOLIBRI_MSG_HELLO /\ declared = 4
              \/ buffer[1] = KolibriNetMessageType.KOLIBRI_MSG_ACK /\ declared = 1
              \/ /\ buffer[1] = KolibriNetMessageType.KOLIBRI_MSG_MIGRATE_RULE
                 /\ buffer[8] <= GeneDigits
                 /\ declared = 4 + 1 + buffer[8] + 8


\* C25: when kn_listener_poll returns from a connection it accepted, it
\* returns with status 1 the first MIGRATE_RULE among the frames the peer sent,
\* or, when the stream ends or a frame is malformed before one, the last
\* message decoded before that; when no message was decoded it returns 0.
C25_PollReturnsFirstRuleOrLast ==
    (net.poll.pc = "returned" /\ net.poll.accepted) =>
        LET RECURSIVE stream(_)
            stream(frames) == IF frames = <<>> THEN <<>>
                              ELSE Head(frames) \o stream(Tail(frames))
            RECURSIVE expected(_, _)
            expected(bytes, held) ==
                LET declared == ntoh(SubSeq(bytes, 2, 3))
                    decoded == kn_message_decode(SubSeq(bytes, 1, 3 + declared))
                IN IF Len(bytes) < 3 THEN held
                   ELSE IF declared > KOLIBRI_MAX_PAYLOAD \/ Len(bytes) < 3 + declared THEN held
                   ELSE IF decoded.ret # 0 THEN held
                   ELSE IF decoded.message.type = KolibriNetMessageType.KOLIBRI_MSG_MIGRATE_RULE
                        THEN [status |-> 1, message |-> decoded.message]
                   ELSE expected(SubSeq(bytes, 4 + declared, Len(bytes)),
                                 [status |-> 1, message |-> decoded.message])
            due == expected(stream(net.peer.sent), [status |-> 0, message |-> [type |-> 0]])
        IN /\ net.poll.result = due.status
           /\ due.status = 1 => net.poll.out_message = due.message

\* C26: kn_share_formula writes two frames, a HELLO and then a MIGRATE_RULE,
\* and the kn_listener_poll that accepted it returns 1 with a MIGRATE_RULE of
\* the node id, gene and fitness that kn_share_formula was given.
C26_ShareDeliversRule ==
    /\ (net.peer.kind = "share" /\ net.peer.pc = "closed") =>
           /\ Len(net.peer.sent) = 2
           /\ net.peer.sent[1][1] = KolibriNetMessageType.KOLIBRI_MSG_HELLO
           /\ net.peer.sent[2][1] = KolibriNetMessageType.KOLIBRI_MSG_MIGRATE_RULE
           /\ net.peer.result = 0
    /\ (net.peer.kind = "share" /\ net.poll.pc = "returned" /\ net.poll.accepted) =>
           /\ net.poll.result = 1
           /\ net.poll.out_message =
                  [type |-> KolibriNetMessageType.KOLIBRI_MSG_MIGRATE_RULE,
                   node_id |-> net.peer.node_id,
                   length |-> Len(net.peer.formula.gene),
                   digits |-> net.peer.formula.gene,
                   fitness |-> net.peer.formula.fitness]

\* C27: a kn_listener_poll that has accepted a connection returns, whatever
\* the peer does.
C27_PollEventuallyReturns == net.poll.accepted ~> (net.poll.pc = "returned")


\* C28: the digits of a byte sequence are three for each byte and
\* kolibri_izluchit_utf8 gives the bytes back; a number written with
\* kolibri_potok_cifr_zapisat_chislo, the least and the greatest included, is
\* the number kolibri_potok_cifr_schitat_chislo reads, and it is written
\* whenever the stream has room for the longest number.
C28_CodecRoundTrip ==
    /\ call.op = "kolibri_transducirovat_utf8" =>
          /\ Len(call.ret.cifry) = 3 * Len(call.arg[1])
          /\ call.ret.izluchit = [ok |-> TRUE, bytes |-> call.arg[1]]
    /\ call.op = "kolibri_potok_cifr_zapisat_chislo" =>
          /\ call.ret.written.ret = 0 =>
                /\ call.ret.read.ret = 0
                /\ call.ret.read.znachenie = call.arg[2]
                /\ call.ret.read.potok.poziciya = Len(call.ret.written.potok.cifry)
          /\ (call.arg[1].emkost - Len(call.arg[1].cifry)
                  >= 3 + kolibri_podschitat_cifry(LLONG_MAX)) => call.ret.written.ret = 0

\* the least number came back from a stream that held another number before it
C28_Witness ==
    /\ call.op = "kolibri_potok_cifr_zapisat_chislo"
    /\ call.arg[2] = -LLONG_MAX - 1
    /\ call.arg[1].cifry = <<0, 1, 0, 7>>
    /\ call.ret.written.ret = 0
    /\ call.ret.read.ret = 0
    /\ call.ret.read.znachenie = -LLONG_MAX - 1

\* C29: kolibri_izluchit_utf8 fails when the number of digits is no multiple
\* of three or a stored digit is greater than 9, and gives different bytes
\* for different digit sequences.
C29_DecoderExactInverse ==
    call.op = "kolibri_izluchit_utf8" =>
        /\ \A k \in 1..2 :
              (Len(call.arg[k]) % 3 # 0 \/ \E i \in 1..Len(call.arg[k]) : call.arg[k][i] > 9)
                  => ~call.ret[k].ok
        /\ (call.arg[1] # call.arg[2] /\ call.ret[1].ok /\ call.ret[2].ok)
              => call.ret[1].bytes # call.ret[2].bytes


\* C30: while kg_append refuses no record, the ledger of a runtime holds one
\* record for each start, teach, ask, evolve and feedback that succeeded, in
\* the order of the calls, the first of them BOOT.
C30_OneRecordPerAction ==
    (runtime.started /\ runtime.lost = 0) =>
        LET lines == fgets(fileData)
            name == [boot |-> RuntimeEvent.BOOT, evolve |-> RuntimeEvent.EVOLVE,
                     ask |-> RuntimeEvent.ASK, feedback |-> RuntimeEvent.USER_FEEDBACK]
        IN /\ Len(lines) = Len(runtime.done)
           /\ \A i \in 1..Len(lines) :
                 LET blok == BlockOfLine(lines, i, KOLIBRI_HMAC_KEY)
                 IN /\ blok.index = i - 1
                    /\ runtime.done[i] # "teach" =>
                          kg_block_event_text(blok).bytes = name[runtime.done[i]]
           /\ runtime.done # <<>> => runtime.done[1] = "boot"


\* C31: a kn_listener_poll with a timeout of 0 returns by steps of its own,
\* whatever the peer does and whether or not a connection is pending: it
\* returns, and it is never in a read that only the peer can end.  With no
\* connection pending it returns 0 and hands no message over.
C31_ZeroTimeoutPollDoesNotWait ==
    /\ <>(net.poll.pc = "returned")
    /\ [](~(/\ net.poll.pc \in {"header", "payload"}
            /\ net.wire = <<>>
            /\ net.peer.pc = "open"))
    /\ []((net.poll.pc = "returned" /\ ~net.poll.accepted) =>
              /\ net.poll.result = 0
              /\ net.poll.out_message = NetStart.poll.out_message
              /\ net.poll.buffer = <<>>)


\* C32: kolibri_potok_cifr_schitat_chislo returns 1 on a stream read to its
\* end.  Otherwise it fails when the declared digit count is zero or above the
\* digits of the greatest number, when the sign digit is not 0 or 1, when fewer
\* digits are left than declared and when the magnitude is outside the range
\* of the type; a call that does not succeed leaves the stream and its
\* position as they were, and a call that succeeds moves the position by three
\* and the declared digit count.
C32_ReaderKeepsPositionOnFailure ==
    call.op = "kolibri_potok_cifr_schitat_chislo" =>
        LET potok == call.arg[1]
            left == SubSeq(potok.cifry, potok.poziciya + 1, Len(potok.cifry))
            declared == left[1] * 10 + left[2]
            RECURSIVE value(_)
            value(cifry) == IF cifry = <<>> THEN 0
                            ELSE 10 * value(SubSeq(cifry, 1, Len(cifry) - 1))
                                     + cifry[Len(cifry)]
            magnitude == value(SubSeq(left, 4, 3 + declared))
            malformed ==
                \/ Len(left) < 3
                \/ declared = 0 \/ declared > Len(FormatUll(LLONG_MAX))
                \/ left[3] > 1
                \/ Len(left) < 3 + declared
                \/ /\ \A i \in 4..(3 + declared) : left[i] <= 9
                   /\ magnitude > LLONG_MAX + left[3]
        IN /\ left = <<>> => call.ret.ret = 1
           /\ (left # <<>> /\ malformed) => call.ret.ret = -1
           /\ call.ret.ret # 0 => call.ret.potok = potok
           /\ call.ret.ret = 0 =>
                  /\ call.ret.potok = [potok EXCEPT !.poziciya = @ + 3 + declared]
                  /\ call.ret.znachenie = IF left[3] = 1 THEN -magnitude ELSE magnitude

\* a number behind another one whose magnitude is one above the greatest: the
\* reader fails in the middle of the stream and stays where it was
C32_Witness ==
    /\ call.op = "kolibri_potok_cifr_schitat_chislo"
    /\ call.arg[1].poziciya = 4
    /\ Len(call.arg[1].cifry) = 11
    /\ SubSeq(call.arg[1].cifry, 5, 11) = <<0, 4, 0, 2, 0, 4, 8>>
    /\ call.ret.ret = -1
    /\ call.ret.potok.poziciya = 4


C34_ElitesKeptOthersBred ==
    call.op = "reproduce" =>
        LET before == call.arg[1]
            after == call.ret
            e == IF before.count \div 3 = 0 THEN 1 ELSE before.count \div 3
        IN /\ after.count = before.count
           /\ \A i \in 0..(e - 1) : after.formulas[i + 1] = before.formulas[i + 1]
           /\ \A i \in e..(before.count - 1) :
                 LET first == before.formulas[(i % e) + 1].gene
                     second == before.formulas[((i + 1) % e) + 1].gene
                     child == after.formulas[i + 1]
                     bred == SubSeq(first, 1, Len(first) \div 2)
                                \o SubSeq(second, Len(first) \div 2 + 1, Len(second))
                 IN /\ Len(child.gene) = Len(first)
                    /\ Cardinality({k \in 1..Len(first) : child.gene[k] # bred[k]}) <= 1
                    /\ \A k \in 1..Len(first) : child.gene[k] \in 0..9
                    /\ child.fitness = Dbl(0)
                    /\ child.feedback = 0
                    /\ child.association_count = 0

\* a pool with three elites: slot 5 is bred from elites 2 and 0, which differ
\* in both halves, and one digit of the child is the mutation's
C34_Witness ==
    /\ call.op = "reproduce"
    /\ call.arg[1].count = ReproducePool
    /\ LET a == call.arg[1].formulas[3].gene
           b == call.arg[1].formulas[1].gene
           child == call.ret.formulas[6].gene
       IN /\ SubSeq(a, 1, GeneDigits \div 2) # SubSeq(b, 1, GeneDigits \div 2)
          /\ SubSeq(a, GeneDigits \div 2 + 1, GeneDigits)
                # SubSeq(b, GeneDigits \div 2 + 1, GeneDigits)
          /\ child # SubSeq(a, 1, GeneDigits \div 2)
                        \o SubSeq(b, GeneDigits \div 2 + 1, GeneDigits)
    /\ call.arg[1].formulas[6].association_count = 0
    /\ call.arg[1].formulas[7].association_count = 1
    /\ call.ret.formulas[1].association_count = 1


\* C35: kf_pool_tick asked for 0 generations runs one: the pools it may
\* leave are those that kf_pool_tick asked for 1 generation may leave, which
\* are the outcomes of one evaluation, sort and reproduction followed by the
\* handing out of the associations.
C35_TickZeroRunsOneGeneration ==
    call.op = "kf_pool_tick" =>
        LET before == call.arg[1]
            one == UNION {best_get_associations(q) : q \in generation(before)}
        IN /\ call.ret \in one
           /\ kf_pool_tick(before, 0) = one
           /\ kf_pool_tick(before, 1) = one

\* no generation asked for on a pool with examples and a rated formula: the
\* generator has moved and the formulas have been scored
C35_Witness ==
    /\ call.op = "kf_pool_tick"
    /\ call.arg[2] = 0
    /\ call.arg[1].examples = 2
    /\ \E i \in 1..PoolFormulas : call.arg[1].formulas[i].feedback # 0
    /\ call.ret.rng # call.arg[1].rng
    /\ call.ret.formulas # call.arg[1].formulas


\* C36: for a gene of 11 digits or more and any int input the numeric rule
\* gives the value of the decoded rule, computed without overflow and then
\* clamped to the range of int: slope * x + bias, slope * x - bias,
\* (slope * x) rem aux + bias with aux 0 taken as 1, slope * x * x + bias.
C36_NumericRuleExact ==
    call.op = "formula_predict_numeric" =>
        LET gene == call.arg[1]
            x == call.arg[2]
            signed(at) == (IF gene[at] % 2 = 0 THEN 1 ELSE -1)
                             * (10 * gene[at + 1] + gene[at + 2])
            slope == signed(2)
            bias == signed(5)
            aux == IF signed(8) = 0 THEN 1 ELSE signed(8)
            product == slope * x
            remainder == IF product >= 0 THEN product % (IF aux < 0 THEN -aux ELSE aux)
                         ELSE -((-product) % (IF aux < 0 THEN -aux ELSE aux))
            exact == CASE gene[1] % 4 = 0 -> product + bias
                       [] gene[1] % 4 = 1 -> product - bias
                       [] gene[1] % 4 = 2 -> remainder + bias
                       [] gene[1] % 4 = 3 -> product * x + bias
        IN /\ call.ret.ok
           /\ call.ret.output = IF exact > INT_MAX THEN INT_MAX
                                ELSE IF exact < -INT_MAX - 1 THEN -INT_MAX - 1
                                ELSE exact


\* C37: a kf_pool_feedback that succeeds rates one formula, the first in rank
\* order that carries the given gene: its feedback moves by delta within
\* [-1, 1] and its fitness by delta, not below 0, and nothing else of it
\* changes.  The other formulas are as they were and in the order they were
\* in, so the genes of the population are the same, and the rest of the pool is
\* untouched.
C37_FeedbackRatesOneFormula ==
    (plast.op = "feedback" /\ plast.ret = 0) =>
        LET before == plast.pool0.formulas
            after == pool.formulas
            gene == plast.arg[1]
            delta == plast.arg[2]
            without(formulas, k) == SubSeq(formulas, 1, k - 1)
                                       \o SubSeq(formulas, k + 1, Len(formulas))
            i == CHOOSE k \in 1..Len(before) :
                    /\ before[k].gene = gene
                    /\ \A m \in 1..(k - 1) : before[m].gene # gene
            moved == before[i].feedback + delta
            raised == DblAdd(before[i].fitness, delta)
            rated == [before[i] EXCEPT
                        !.feedback = IF moved > FitOne THEN FitOne
                                     ELSE IF moved < -FitOne THEN -FitOne ELSE moved,
                        !.fitness = IF DblLess(raised, Dbl(0)) THEN Dbl(0) ELSE raised]
        IN /\ \E k \in 1..Len(before) : before[k].gene = gene
           /\ Len(after) = Len(before)
           /\ \E j \in 1..Len(after) :
                 /\ after[j] = rated
                 /\ without(after, j) = without(before, i)
                 /\ delta > 0 => j <= i
                 /\ delta < 0 => j >= i
           /\ pool = [plast.pool0 EXCEPT !.formulas = after]

\* two formulas carry the rated gene and the first of them was rated and has
\* moved past another formula
C37_Witness ==
    /\ plast.op = "feedback" /\ plast.ret = 0
    /\ \E i, k \in 1..PoolFormulas :
          /\ i < k
          /\ plast.pool0.formulas[i].gene = plast.arg[1]
          /\ plast.pool0.formulas[k].gene = plast.arg[1]
          /\ pool.formulas[k] = plast.pool0.formulas[k]
    /\ \E i, j \in 1..PoolFormulas :
          /\ i # j
          /\ plast.pool0.formulas[i].gene = plast.arg[1]
          /\ pool.formulas[j].gene = plast.arg[1]
          /\ pool.formulas[j] # plast.pool0.formulas[j]
          /\ pool.formulas[i].gene # plast.arg[1]

(***************************************************************************)
(* C38: kg_open, kg_verify_file and kg_replay with a visitor that returns  *)
(* 0 for every block accept the same pairs of file contents and key: for   *)
(* an existing file and any key, valid or not, either all three return 0   *)
(* or none does, and the call that was just made returned what the other   *)
(* two return on the file and key it was given.                            *)
(***************************************************************************)
AnyKeys == Keys \cup {<<>>, <<11, 23, 2>>}

Accepts(data, klyuch) ==
    [open |-> kg_open(ZeroGenome, TRUE, data, klyuch).ret = 0,
     verify |-> kg_verify_file(TRUE, data, klyuch).ret = 0,
     replay |-> kg_replay(TRUE, data, klyuch, {}).ret = 0]

C38_ReadersAcceptTheSameFiles ==
    /\ fileExists =>
          \A klyuch \in AnyKeys :
             LET a == Accepts(fileData, klyuch)
             IN a.open = a.verify /\ a.verify = a.replay
    /\ (last.exists0 /\ (last.op \in {"open", "verify"}
                          \/ (last.op = "replay" /\ last.arg = {}))) =>
          LET a == Accepts(last.data0, last.klyuch)
          IN /\ (last.ret = 0) = a.open
             /\ (last.ret = 0) = a.verify
             /\ (last.ret = 0) = a.replay

\* a ledger with a foreign byte in a later record was replayed with the
\* visitor that accepts every block: the first record passed, the replay failed
C38_Witness ==
    /\ tampered
    /\ last.exists0
    /\ last.op = "replay"
    /\ last.arg = {}
    /\ last.ret = -1
    /\ Len(last.visited) >= 1
    /\ ~Accepts(last.data0, last.klyuch).open
    /\ \E klyuch \in Keys : klyuch # last.klyuch /\ ~Accepts(last.data0, klyuch).verify

(***************************************************************************)
(* C39: whatever kf_pool_add_example, kf_pool_add_association,             *)
(* kf_pool_tick and kf_pool_feedback do to a pool that kf_pool_init made,  *)
(* the pool keeps its full count of formulas, every gene keeps the full    *)
(* length of the digits array with every digit in 0..9, and                *)
(* kf_formula_apply returns 0 on every formula for every input.            *)
(***************************************************************************)
ApplyInputs == {-INT_MAX - 1, -1, 0, 1, INT_MAX} \cup {kf_hash_from_text(q) : q \in Questions}

WellFormed(formula) ==
    /\ Len(formula.gene) = GeneDigits
    /\ \A d \in 1..Len(formula.gene) : formula.gene[d] \in 0..9
    /\ \A input \in ApplyInputs : kf_formula_apply(formula, input).ret = 0

C39_GenesStayWellFormed ==
    /\ pool.count = PoolFormulas
    /\ Len(pool.formulas) = pool.count
    /\ \A i \in 1..pool.count : WellFormed(pool.formulas[i])

\* every operation has acted: an association was taught, a generation bred
\* genes that kf_pool_init did not draw, a formula holds the association and
\* a formula was rated
C39_Witness ==
    /\ pcalls.teaches < TwinTeaches
    /\ pcalls.ticks < TwinTicks
    /\ pcalls.feedbacks < TwinFeedbacks
    /\ pool.examples > 1
    /\ plast.op = "feedback"
    /\ plast.ret = 0
    /\ \E i \in 1..pool.count : pool.formulas[i].association_count > 0
    /\ \E i \in 1..pool.count : pool.formulas[i].feedback # 0
    /\ \E i \in 1..pool.count :
          \A seed \in Seeds, j \in 1..PoolFormulas :
             pool.formulas[i].gene # kf_pool_init(seed).formulas[j].gene

====
